---- MODULE Spec2Model ----
(***************************************************************************)
(* nanoporter: the port-forward supervisor (runPortForward and             *)
(* establishPortForward), the health probe (checkHealth), Stop, the        *)
(* backoff computation (calculateBackoff) and the update channel           *)
(* (notifyUpdate) of PortForwardManager.                                   *)
(***************************************************************************)
EXTENDS Integers, Sequences, FiniteSets, TLC

----------------------------------------------------------------------------
(* Bounds of the model *)

\* largest number of forwards a configuration may hold
MaxForwards == 2
\* number of fresh contexts the probes of one record may install
MaxCtx == 1
\* cap on RetryCount in Spec
MaxRetry == 2
\* cap on RetryCount in SpecBackoff, the specification of long failure runs
MaxRetryLong == 36
\* largest retryCount handed to calculateBackoff in SpecCalc
MaxShift == 70
\* Spec follows the schedules in which at most MaxQueued updates await the consumer
MaxQueued == 1
\* cap on the publications numbered in SpecBus
MaxPub == 102
\* PIDs of the processes that can hold a port
MaxRetryPair == 1    \* failures handled by each supervisor of a pair
MaxPid == 2

AllForwards == 1..MaxForwards

----------------------------------------------------------------------------
(* time.Duration: a signed 64-bit count of nanoseconds, kept as four       *)
(* 16-bit limbs, least significant first, so that products wrap mod 2^64.  *)

Limb == 65536

Pow2(n) == IF n = 0 THEN 1 ELSE
           IF n = 1 THEN 2 ELSE
           IF n = 2 THEN 4 ELSE
           IF n = 3 THEN 8 ELSE
           IF n = 4 THEN 16 ELSE
           IF n = 5 THEN 32 ELSE
           IF n = 6 THEN 64 ELSE
           IF n = 7 THEN 128 ELSE
           IF n = 8 THEN 256 ELSE
           IF n = 9 THEN 512 ELSE
           IF n = 10 THEN 1024 ELSE
           IF n = 11 THEN 2048 ELSE
           IF n = 12 THEN 4096 ELSE
           IF n = 13 THEN 8192 ELSE
           IF n = 14 THEN 16384 ELSE 32768

W64Zero == <<0, 0, 0, 0>>

\* the 64-bit word of a small integer, in two's complement
W64Of(n) ==
    <<n % Limb, (n \div Limb) % Limb, ((n \div Limb) \div Limb) % Limb,
      (((n \div Limb) \div Limb) \div Limb) % Limb>>

\* x * k mod 2^64 for a small factor k (k <= 1000)
W64MulSmall(x, k) ==
    LET p1 == x[1] * k
        p2 == x[2] * k + (p1 \div Limb)
        p3 == x[3] * k + (p2 \div Limb)
        p4 == x[4] * k + (p3 \div Limb)
    IN  <<p1 % Limb, p2 % Limb, p3 % Limb, p4 % Limb>>

\* 1 << n on a 64-bit word: Go yields 0 for a shift count >= 64
W64Shl1(n) ==
    IF n >= 64 THEN W64Zero
    ELSE [i \in 1..4 |-> IF i = (n \div 16) + 1 THEN Pow2(n % 16) ELSE 0]

W64Neg(x) == x[4] >= 32768

\* unsigned x > y
W64UGt(x, y) ==
    \/ x[4] > y[4]
    \/ x[4] = y[4] /\ x[3] > y[3]
    \/ x[4] = y[4] /\ x[3] = y[3] /\ x[2] > y[2]
    \/ x[4] = y[4] /\ x[3] = y[3] /\ x[2] = y[2] /\ x[1] > y[1]

\* signed x > y
W64Gt(x, y) ==
    IF W64Neg(x) # W64Neg(y) THEN W64Neg(y) ELSE W64UGt(x, y)

\* d * time.Second (10^9 ns), wrapping
TimesSecond(d) == W64MulSmall(W64MulSmall(W64MulSmall(d, 1000), 1000), 1000)

\* n seconds as a Duration, for small n
Seconds(n) == TimesSecond(W64Of(n))

----------------------------------------------------------------------------
(* ForwardState *)

StateStarting     == "starting"
StateActive       == "active"
StateReconnecting == "reconnecting"
StateFailed       == "failed"
StateStopped      == "stopped"

ForwardState == {StateStarting, StateActive, StateReconnecting, StateFailed, StateStopped}

(* error texts returned by establishPortForward *)
ErrFindPod     == "failed to find pod"
ErrCreate      == "failed to create port forwarder"
ErrForward     == "forward ports error"
ErrPortForward == "port-forward error"
ErrClosed      == "port-forward closed unexpectedly"
ErrTimeout     == "timeout waiting for port-forward to be ready"
NoErr          == "nil"

\* the errors establishPortForward returns
FailureTexts == {ErrFindPod, ErrCreate, ErrForward, ErrPortForward, ErrClosed, ErrTimeout}

(* BackupState, and the error texts the backup collaborator records *)
BackupNone      == ""
BackupPending   == "pending"
BackupRunning   == "running"
BackupCompleted == "completed"
BackupFailed    == "failed"

ErrInvalidState == "port forward in invalid state"
ErrWaitTimeout  == "timeout waiting for port forward to become active"
ErrBackup       == "backup failed"

----------------------------------------------------------------------------
(* the port conflict resolver: process names are sequences of characters *)

ProgramName == <<"n", "a", "n", "o", "p", "o", "r", "t", "e", "r">>
Unknown     == <<"u", "n", "k", "n", "o", "w", "n">>

\* the PIDs of the processes: SelfPid is os.Getpid(), 0 is no process
SelfPid == 1
Pids    == 1..MaxPid

\* /proc/<pid>/cmdline of a process: unreadable, or its first part
NoCmdline == [readable |-> FALSE, arg0 |-> <<>>]
Cmdlines ==
    {NoCmdline} \cup
    {[readable |-> TRUE, arg0 |-> a] :
        a \in {<<>>,
               <<"n", "a", "n", "o", "p", "o", "r", "t", "e", "r">>,
               <<"/", "b", "i", "n", "/", "n", "a", "n", "o", "p", "o", "r", "t", "e", "r">>,
               <<"n", "g", "i", "n", "x">>,
               <<"/", "n", "a", "n", "o", "p", "o", "r", "t", "e", "r", "/", "n", "g", "i", "n", "x">>,
               <<"p", "o", "r", "t", "e", "r">>}}

\* a port without a listener, and the listeners a port can have
NoListener == [pid |-> 0, cmdline |-> NoCmdline]
Listeners  == {NoListener} \cup [pid : Pids, cmdline : Cmdlines]

\* strings.Contains
Contains(str, sub) ==
    \E i \in 0..(Len(str) - Len(sub)) : SubSeq(str, i + 1, i + Len(sub)) = sub

\* strings.LastIndex of "/", counted from 1, 0 if there is none
LastSlash(str) ==
    IF \E i \in 1..Len(str) : str[i] = "/"
    THEN CHOOSE i \in 1..Len(str) :
             str[i] = "/" /\ \A j \in (i + 1)..Len(str) : str[j] # "/"
    ELSE 0

\* getProcessName, and the "unknown" its callers put for a read error
getProcessName(cmdline) ==
    IF ~cmdline.readable THEN Unknown
    ELSE IF cmdline.arg0 = <<>> THEN Unknown
    ELSE SubSeq(cmdline.arg0, LastSlash(cmdline.arg0) + 1, Len(cmdline.arg0))

\* the errors of checkAndKillPortConflict, and nil
NoPortErr == [kind |-> "nil"]
ErrForeignProcess(port, name, pid) ==
    [kind |-> "non-nanoporter process", port |-> port, name |-> name, pid |-> pid]
ErrKillFailed(pid) == [kind |-> "failed to kill", pid |-> pid]

----------------------------------------------------------------------------
(* LoadConfig and validateConfig: the configuration file, names as sequences *)
(* of characters, durations in seconds                                       *)

MinPort == 1
MaxPort == 65535
DefaultCheckInterval  == 10
DefaultReconnectDelay == 5

\* a duration key of the file: <<>> when the file leaves it out, <<d>> when
\* the file gives it the value d
Unset == <<>>
Given(d) == <<d>>

\* yaml.Unmarshal of a duration key: the zero Duration when the key is left out
Unmarshal(d) == IF d = Unset THEN 0 ELSE d[1]

\* the forwardKey of validateConfig: cluster.Name + "/" + Namespace + "/" + Service
forwardKey(cluster, forward) ==
    cluster.Name \o <<"/">> \o forward.Namespace \o <<"/">> \o forward.Service

\* a validForward that lets the port 0 pass
validForwardFromZero(cluster, forward) ==
    /\ forward.Namespace # <<>>
    /\ forward.Service # <<>>
    /\ forward.Type \in {"service", "pod"}
    /\ ~(forward.LocalPort < MinPort - 1 \/ forward.LocalPort > MaxPort)
    /\ ~(forward.RemotePort < MinPort - 1 \/ forward.RemotePort > MaxPort)

\* the checks validateConfig makes on one forward of a cluster
validForward(cluster, forward) ==
    /\ forward.Namespace # <<>>
    /\ forward.Service # <<>>
    /\ forward.Type \in {"service", "pod"}
    /\ ~(forward.LocalPort < MinPort \/ forward.LocalPort > MaxPort)
    /\ ~(forward.RemotePort < MinPort \/ forward.RemotePort > MaxPort)

\* a local port check that looks only at the forwards of the same cluster
localPortsUniquePerCluster(clusters) ==
    \A i \in 1..Len(clusters) : \A j \in 1..Len(clusters[i].Forwards) :
        \A l \in 1..(j - 1) :
            clusters[i].Forwards[l].LocalPort # clusters[i].Forwards[j].LocalPort

\* the local port check of validateConfig: no forward has a local port that a
\* forward before it in the file has
localPortsUnique(clusters) ==
    \A i \in 1..Len(clusters) : \A j \in 1..Len(clusters[i].Forwards) :
        clusters[i].Forwards[j].LocalPort \notin
            {clusters[k].Forwards[l].LocalPort :
                <<k, l>> \in {kl \in UNION {{<<k, l>> : l \in 1..Len(clusters[k].Forwards)} :
                                              k \in 1..i} :
                                 kl[1] < i \/ kl[2] < j}}

\* validateConfig returns nil
validateConfig(clusters) ==
    /\ Len(clusters) # 0
    /\ \A i \in 1..Len(clusters) :
           /\ clusters[i].Name # <<>>
           /\ \A k \in 1..(i - 1) : clusters[k].Name # clusters[i].Name
           /\ clusters[i].Kubeconfig \notin {"", "missing"}
           /\ Len(clusters[i].Forwards) # 0
           /\ \A j \in 1..Len(clusters[i].Forwards) :
                  /\ validForward(clusters[i], clusters[i].Forwards[j])
                  /\ \A l \in 1..(j - 1) :
                         forwardKey(clusters[i], clusters[i].Forwards[l]) #
                             forwardKey(clusters[i], clusters[i].Forwards[j])
    /\ localPortsUnique(clusters)

\* a LoadConfig that sets no defaults
LoadConfigNoDefaults(file) ==
    IF validateConfig(file.clusters)
    THEN [err |-> "nil",
          CheckInterval  |-> Unmarshal(file.check_interval),
          ReconnectDelay |-> Unmarshal(file.reconnect_delay),
          Clusters |-> file.clusters]
    ELSE [err |-> "invalid configuration"]

\* LoadConfig on a file that could be read and parsed: the Config, or an error
LoadConfig(file) ==
    LET ci == Unmarshal(file.check_interval)
        rd == Unmarshal(file.reconnect_delay)
    IN  IF validateConfig(file.clusters)
        THEN [err |-> "nil",
              CheckInterval  |-> IF ci = 0 THEN DefaultCheckInterval ELSE ci,
              ReconnectDelay |-> IF rd = 0 THEN DefaultReconnectDelay ELSE rd,
              Clusters |-> file.clusters]
        ELSE [err |-> "invalid configuration"]

\* the forwards of a configuration, in the order of the file
RECURSIVE allForwards(_)
allForwards(clusters) ==
    IF clusters = <<>> THEN <<>>
    ELSE Head(clusters).Forwards \o allForwards(Tail(clusters))

\* a forward of a file, and a cluster with a kubeconfig that exists
Forward(ns, svc, type, lp, rp) ==
    [Namespace |-> ns, Service |-> svc, Type |-> type, LocalPort |-> lp, RemotePort |-> rp]
Cluster(name, forwards) == [Name |-> name, Kubeconfig |-> "ok", Forwards |-> forwards]

\* the file of the other specifications: one cluster, n forwards on the local
\* ports 1..n, reconnect_delay d
BaseForward(p) == Forward(<<"n">>, [i \in 1..p |-> "s"], "service", p, MaxPort)
BaseFile(d, n) ==
    [check_interval |-> Unset, reconnect_delay |-> d,
     clusters |-> <<Cluster(<<"a">>, [p \in 1..n |-> BaseForward(p)])>>]

\* the files of two forwards: the same local port twice in one cluster, and
\* a forward in each of two clusters with the same local port or with two
PairFiles ==
    {[check_interval |-> Unset, reconnect_delay |-> Unset, clusters |-> cs] :
        cs \in {<<Cluster(<<"a">>, <<BaseForward(1), Forward(<<"n">>, <<"t">>, "pod", 1, MinPort)>>)>>} \cup
               {<<Cluster(<<"a">>, <<BaseForward(1)>>),
                  Cluster(<<"b">>, <<Forward(<<"n">>, <<"s">>, "pod", p, MinPort)>>)>> : p \in {1, 2}}}

\* the values tried for the fields of a forward, for a cluster's name and
\* kubeconfig, and for a duration key
PortChoices      == {MinPort - 1, MinPort, MaxPort, MaxPort + 1}
NameChoices      == {<<>>, <<"a">>, <<"b">>}
NamespaceChoices == {<<>>, <<"n">>}
ServiceChoices   == {<<>>, <<"s">>, <<"t">>}
TypeChoices      == {"service", "pod", "deployment", ""}
DurationChoices  ==
    {Unset} \cup {Given(d) : d \in {-1, 0, 1, 3, DefaultReconnectDelay, DefaultCheckInterval}}
ForwardChoices ==
    {Forward(ns, svc, type, lp, rp) :
        ns \in NamespaceChoices, svc \in ServiceChoices, type \in TypeChoices,
        lp \in PortChoices, rp \in PortChoices}
GoodForwards ==
    {Forward(<<"n">>, <<"s">>, "service", lp, MinPort) : lp \in {MinPort, MaxPort}}

\* the cluster lists tried: none, a cluster without forwards, one or two
\* forwards in one cluster, one forward in each of two clusters
ClusterLists ==
    {<<>>, <<Cluster(<<"a">>, <<>>)>>} \cup
    {<<[Name |-> nm, Kubeconfig |-> kc, Forwards |-> <<f>>]>> :
        nm \in NameChoices, kc \in {"", "missing", "ok"}, f \in ForwardChoices} \cup
    {<<Cluster(<<"a">>, <<g, f>>)>> : g \in GoodForwards, f \in ForwardChoices} \cup
    {<<Cluster(<<"a">>, <<g>>), Cluster(nm, <<f>>)>> :
        nm \in NameChoices, g \in GoodForwards, f \in ForwardChoices}

\* the files tried: every cluster list without duration keys, and every pair
\* of duration keys with the base clusters
ConfigFiles ==
    {[check_interval |-> Unset, reconnect_delay |-> Unset, clusters |-> cs] :
        cs \in ClusterLists} \cup
    {[check_interval |-> ci, reconnect_delay |-> rd, clusters |-> BaseFile(Unset, 1).clusters] :
        ci \in DurationChoices, rd \in DurationChoices}

\* LoadConfig has not been called
NotLoaded == [err |-> "not loaded"]

\* what the manager takes from a loaded Config: the wait after a first failure
\* as a Duration, its forwards numbered in the order of the file, and their
\* local ports
ConfigOf(cfg) ==
    [ReconnectDelay |-> Seconds(cfg.ReconnectDelay),
     Forwards  |-> 1..Len(allForwards(cfg.Clusters)),
     LocalPort |-> [pf \in AllForwards |->
                       IF pf <= Len(allForwards(cfg.Clusters))
                       THEN allForwards(cfg.Clusters)[pf].LocalPort ELSE 0]]

\* reconnect_delay in the file: left out, and the values tried, in seconds
DefaultDelay == {Unset}
DelayChoices == {Unset, Given(3)}

----------------------------------------------------------------------------
VARIABLES
    config,        \* Config: ReconnectDelay
    forwards,      \* PortForwardManager.forwards: the records Initialize created
    State,         \* PortForward.State
    Error,         \* PortForward.Error
    RetryCount,    \* PortForward.RetryCount
    ReconnectAt,   \* PortForward.ReconnectAt, as the wait added to time.Now()
    LastCheck,     \* PortForward.LastCheck: 0 is the zero time, 1 the time of a probe
    ctx,           \* PortForward.ctx: the context the field refers to
    cancel,        \* PortForward.cancel: the context this function cancels
    cancelled,     \* the contexts of a record whose Done channel is closed
    nctx,          \* number of contexts created by probes for a record
    pc,            \* position of the supervisor goroutine (runPortForward)
    selCtx,        \* the context whose Done channel the supervisor's select waits on
    err,           \* establishPortForward's result
    delay,         \* runPortForward's local delay
    engine,        \* the forwarder of the current attempt (fw.ForwardPorts)
    hpc,           \* position of the checkHealth goroutine of a record
    currentState,  \* checkHealth's local currentState
    stopPc,        \* Stop: the number of forwards whose cancel it has called
    updateChan,    \* PortForwardManager.updateChan: <<record, publication number>>
    retryArg,      \* SpecCalc: the retryCount handed to calculateBackoff
    backoffRes,    \* SpecCalc: what calculateBackoff returned
    failRun,       \* history: failures handled since the last entry into Active
    longRun,       \* history: two or more failures preceded the last entry into Active
    unpub,         \* history: the fields of State and Error changed since the last notifyUpdate call
    kicked,        \* history: a failed probe cancelled the handle of an Active record
    pubCount,      \* history: publications numbered so far, per record
    lastRecv,      \* history: number of the last publication received, per record
    droppedPubs,   \* history: numbers of the publications dropped, per record
    BackupState,   \* PortForward.BackupState
    BackupError,   \* PortForward.BackupError
    wait,          \* WaitForPortForward: a call on one record, its locals and its result
    backupAll,     \* BackupAllDatabases: its position, its locals and what it returned
    resolve,       \* findPod and the attempt that calls it: the cluster's pods, podName, err
    mainPc,        \* position of main
    listener,      \* the process listening on each configured local port, if any
    checked,       \* CheckAndKillConflictingPorts: the ports it has checked
    found,         \* history: what findProcessUsingPort returned for a port
    sigterms,      \* the SIGTERMs delivered, per PID
    portErr,       \* what checkAndKillPortConflict returned for a port
    file,          \* the configuration file, as yaml.Unmarshal reads it
    loaded         \* what LoadConfig returned

vars == <<config, forwards, State, Error, RetryCount, ReconnectAt, LastCheck, ctx,
          cancel, cancelled, nctx, pc, selCtx, err, delay, engine, hpc, currentState,
          stopPc, updateChan, retryArg, backoffRes, failRun, longRun, unpub, kicked,
          pubCount, lastRecv, droppedPubs, BackupState, BackupError, wait, resolve, backupAll,
          mainPc, listener, checked, found, sigterms, portErr, file, loaded>>

cfgVars    == <<config, forwards>>
fileVars   == <<file, loaded>>
recordVars == <<State, Error, RetryCount, ReconnectAt, LastCheck>>
handleVars == <<ctx, cancel, cancelled, nctx>>
probeVars  == <<hpc, currentState>>
calcVars   == <<retryArg, backoffRes>>
pubVars    == <<pubCount, lastRecv, droppedPubs>>
busVars    == <<updateChan, pubCount, lastRecv, droppedPubs>>
runVars    == <<failRun, longRun, unpub>>
backupVars == <<BackupState, BackupError, backupAll>>
portVars   == <<mainPc, listener, checked, found, sigterms, portErr>>

----------------------------------------------------------------------------
(* calculateBackoff *)

calculateBackoff(retryCount) ==
    IF retryCount = 0 THEN config.ReconnectDelay
    ELSE LET d == TimesSecond(W64Shl1(retryCount))
         IN  IF W64Gt(d, Seconds(60)) THEN Seconds(60) ELSE d

(* notifyUpdate: a non-blocking send on a channel of capacity UpdateChanCap; *)
(* n numbers the publication and is not read by the program                 *)
UpdateChanCap == 100

\* variant of notifyUpdate that queues the update whatever the queue holds
notifyUpdateUnbounded(pf, n) ==
    updateChan' = Append(updateChan, <<pf, n>>)

\* variant of notifyUpdate that puts the update at the head of the queue
notifyUpdateAtHead(pf, n) ==
    updateChan' = IF Len(updateChan) < UpdateChanCap
                  THEN <<(<<pf, n>>)>> \o updateChan
                  ELSE updateChan

notifyUpdate(pf, n) ==
    updateChan' = IF Len(updateChan) < UpdateChanCap
                  THEN Append(updateChan, <<pf, n>>)
                  ELSE updateChan

\* a publication by a supervisor of Spec, which numbers none
Publish(pf) ==
    /\ Len(updateChan) < MaxQueued
    /\ notifyUpdate(pf, 0)
    /\ UNCHANGED pubVars

\* the local port of a forward, and the local ports CheckAndKillConflictingPorts collects
LocalPort(pf) == config.LocalPort[pf]
ConfiguredPorts == {config.LocalPort[pf] : pf \in config.Forwards}

\* the record's mutex is held by a checkHealth that is installing a new context
Locked(pf) == hpc[pf] = "set_cancel"

(* WaitForPortForward: what a call returns, as the parts of the text       *)
(* fmt.Errorf puts together; NoResult while the call has not returned        *)
NoResult == <<>>
WaitNil == <<"nil">>
WaitTimeout == <<ErrWaitTimeout>>
WaitInvalid(state, error) == <<ErrInvalidState, ": ", state, ", error: ", error>>

\* no call of WaitForPortForward has been made; state is the zero ForwardState
NoWait == [pc |-> "idle", pf |-> 0, now |-> 0, deadline |-> 0, state |-> "",
           result |-> NoResult, seen |-> {}]

(* findPod: the pods of the namespace in the order List returns them; selected *)
(* says that the pod's labels match the selector of the service; svc says    *)
(* that the service exists                                                    *)
PodRunning == "Running"
\* no attempt has been made: podName and target are empty, err is nil
NoResolve == [pc |-> "findPod", Type |-> "service", Service |-> "a", cluster |-> [pods |-> <<>>, svc |-> FALSE],
              podName |-> "", err |-> "nil", target |-> "", attempt |-> 1, resolvedIn |-> 0]

\* BackupAllDatabases has not been called: i is the forward its loops are at,
\* DBBackup the forwards whose configuration has a db_backup section
NoBackupAll == [pc |-> "idle", i |-> 1, DBBackup |-> {}, backupCount |-> 0, errors |-> 0,
                result |-> "none"]

\* Start has run: the supervisors and the health monitor exist
Started == mainPc = "running"

----------------------------------------------------------------------------
(* NewPortForwardManager, Initialize: one record per configured forward *)

\* m is where main stands: at "start" Initialize has created the records,
\* at "check_ports" main is about to call CheckAndKillConflictingPorts, at
\* "load_config" it is about to call LoadConfig
InitRecords(n, args, m) ==
    /\ forwards = IF m = "start" THEN 1..n ELSE {}
    /\ mainPc = m
    /\ listener \in IF m = "check_ports"
                   THEN {l \in [AllForwards -> Listeners] :
                            \A p \in AllForwards \ (1..n) : l[p] = NoListener}
                   ELSE {[p \in AllForwards |-> NoListener]}
    /\ checked = {}
    /\ found = [p \in AllForwards |-> [pid |-> 0, name |-> <<>>]]
    /\ sigterms = [p \in Pids |-> 0]
    /\ portErr = [p \in AllForwards |-> NoPortErr]
    /\ State = [pf \in AllForwards |-> StateStarting]
    /\ Error = [pf \in AllForwards |-> ""]
    /\ RetryCount = [pf \in AllForwards |-> 0]
    /\ ReconnectAt = [pf \in AllForwards |-> [set |-> FALSE, after |-> W64Zero]]
    /\ LastCheck = [pf \in AllForwards |-> 0]
    /\ ctx = [pf \in AllForwards |-> 0]
    /\ cancel = [pf \in AllForwards |-> 0]
    /\ cancelled = [pf \in AllForwards |-> {}]
    /\ nctx = [pf \in AllForwards |-> 0]
    /\ pc = [pf \in AllForwards |-> "new"]
    /\ selCtx = [pf \in AllForwards |-> 0]
    /\ err = [pf \in AllForwards |-> NoErr]
    /\ delay = [pf \in AllForwards |-> W64Zero]
    /\ engine = [pf \in AllForwards |-> "none"]
    /\ hpc = [pf \in AllForwards |-> "idle"]
    /\ currentState = [pf \in AllForwards |-> StateStarting]
    /\ stopPc = 0
    /\ updateChan = <<>>
    /\ retryArg \in args
    /\ backoffRes = [done |-> FALSE, val |-> W64Zero]
    /\ failRun = [pf \in AllForwards |-> 0]
    /\ longRun = [pf \in AllForwards |-> FALSE]
    /\ unpub = [pf \in AllForwards |-> {}]
    /\ kicked = [pf \in AllForwards |-> FALSE]
    /\ pubCount = [pf \in AllForwards |-> 0]
    /\ lastRecv = [pf \in AllForwards |-> 0]
    /\ droppedPubs = [pf \in AllForwards |-> {}]
    /\ BackupState = [pf \in AllForwards |-> BackupNone]
    /\ BackupError = [pf \in AllForwards |-> ""]
    /\ wait = NoWait

\* LoadConfig has returned the Config of a base file
InitAll(delays, n, args, m) ==
    /\ file \in {BaseFile(d, n) : d \in delays}
    /\ loaded = LoadConfig(file)
    /\ config = ConfigOf(loaded)
    /\ InitRecords(n, args, m)
    /\ resolve = NoResolve
    /\ backupAll = NoBackupAll

InitWith(delays, n, args) == InitAll(delays, n, args, "start")

Init == InitWith(DefaultDelay, 1, {0})

\* Start: go m.runPortForward(pf) for every forward; go m.healthMonitor()
Start ==
    /\ mainPc = "start"
    /\ mainPc' = "running"
    /\ pc' = [pf \in AllForwards |-> IF pf \in forwards THEN "loop" ELSE pc[pf]]
    /\ UNCHANGED <<cfgVars, fileVars, listener, checked, found, sigterms, portErr, backupVars, wait, resolve,
                   recordVars, handleVars, selCtx, err, delay, engine,
                   probeVars, stopPc, busVars, calcVars, runVars, kicked>>

----------------------------------------------------------------------------
(* runPortForward: the supervisor of one record *)

\* for { select { case <-pf.ctx.Done(): ... default: ... } }
SupLoop(pf) ==
    /\ pc[pf] = "loop"
    /\ pc' = [pc EXCEPT ![pf] = IF ctx[pf] \in cancelled[pf] THEN "stop_setState"
                                                              ELSE "findPod"]
    /\ UNCHANGED <<cfgVars, fileVars, portVars, backupVars, wait, resolve, recordVars, handleVars, selCtx, err, delay, engine,
                   probeVars, stopPc, busVars, calcVars, runVars, kicked>>

\* pf.setState(StateStopped)
SupStopSetState(pf) ==
    /\ pc[pf] = "stop_setState"
    /\ ~Locked(pf)
    /\ State' = [State EXCEPT ![pf] = StateStopped]
    /\ unpub' = [unpub EXCEPT ![pf] = IF StateStopped # State[pf] THEN @ \cup {"State"} ELSE @]
    /\ pc' = [pc EXCEPT ![pf] = "stop_notify"]
    /\ UNCHANGED <<cfgVars, fileVars, portVars, backupVars, wait, resolve, Error, RetryCount, ReconnectAt, LastCheck, handleVars,
                   selCtx, err, delay, engine, probeVars, stopPc, busVars, calcVars, failRun, longRun, kicked>>

\* variant of SupStopNotify that goes on with the loop's default branch
SupStopNotifyContinues(pf) ==
    /\ pc[pf] = "stop_notify"
    /\ Publish(pf)
    /\ unpub' = [unpub EXCEPT ![pf] = {}]
    /\ pc' = [pc EXCEPT ![pf] = "findPod"]
    /\ UNCHANGED <<cfgVars, fileVars, portVars, backupVars, wait, resolve, recordVars, handleVars, selCtx, err, delay, engine,
                   probeVars, stopPc, calcVars, failRun, longRun, kicked>>

\* m.notifyUpdate(pf); return
SupStopNotify(pf) ==
    /\ pc[pf] = "stop_notify"
    /\ Publish(pf)
    /\ unpub' = [unpub EXCEPT ![pf] = {}]
    /\ pc' = [pc EXCEPT ![pf] = "exited"]
    /\ UNCHANGED <<cfgVars, fileVars, portVars, backupVars, wait, resolve, recordVars, handleVars, selCtx, err, delay, engine,
                   probeVars, stopPc, calcVars, failRun, longRun, kicked>>

(* establishPortForward *)

\* podName, err := m.findPod(pf)
SupFindPod(pf) ==
    /\ pc[pf] = "findPod"
    /\ \/ /\ pc' = [pc EXCEPT ![pf] = "open"]
          /\ UNCHANGED err
       \/ /\ err' = [err EXCEPT ![pf] = ErrFindPod]
          /\ pc' = [pc EXCEPT ![pf] = "fail_setError"]
    /\ UNCHANGED <<cfgVars, fileVars, portVars, backupVars, wait, resolve, recordVars, handleVars, selCtx, delay, engine,
                   probeVars, stopPc, busVars, calcVars, runVars, kicked>>

\* url.Parse, spdy.RoundTripperFor, portforward.New, go fw.ForwardPorts()
SupOpen(pf) ==
    /\ pc[pf] = "open"
    /\ \/ /\ engine' = [engine EXCEPT ![pf] = "starting"]
          /\ pc' = [pc EXCEPT ![pf] = "wait_ready"]
          /\ UNCHANGED err
       \/ /\ err' = [err EXCEPT ![pf] = ErrCreate]
          /\ pc' = [pc EXCEPT ![pf] = "fail_setError"]
          /\ UNCHANGED engine
    /\ UNCHANGED <<cfgVars, fileVars, portVars, backupVars, wait, resolve, recordVars, handleVars, selCtx, delay,
                   probeVars, stopPc, busVars, calcVars, runVars, kicked>>

\* select { case <-readyChan: ...
SupReady(pf) ==
    /\ pc[pf] = "wait_ready"
    /\ engine[pf] \in {"ready", "ended_err", "ended_nil"}
    /\ pc' = [pc EXCEPT ![pf] = "act_setState"]
    /\ UNCHANGED <<cfgVars, fileVars, portVars, backupVars, wait, resolve, recordVars, handleVars, selCtx, err, delay, engine,
                   probeVars, stopPc, busVars, calcVars, runVars, kicked>>

\* ... case err := <-errChan: return err ...
SupErrChan(pf) ==
    /\ pc[pf] = "wait_ready"
    /\ engine[pf] \in {"failed", "ended_err", "ended_nil"}
    /\ IF engine[pf] = "ended_nil"
       THEN /\ pc' = [pc EXCEPT ![pf] = "loop"]
            /\ UNCHANGED err
       ELSE /\ err' = [err EXCEPT ![pf] = ErrForward]
            /\ pc' = [pc EXCEPT ![pf] = "fail_setError"]
    /\ engine' = [engine EXCEPT ![pf] = "none"]
    /\ UNCHANGED <<cfgVars, fileVars, portVars, backupVars, wait, resolve, recordVars, handleVars, selCtx, delay,
                   probeVars, stopPc, busVars, calcVars, runVars, kicked>>

\* variant of SupReadyTimeout that returns the error and leaves the engine running
SupReadyTimeoutLeavesEngine(pf) ==
    /\ pc[pf] = "wait_ready"
    /\ err' = [err EXCEPT ![pf] = ErrTimeout]
    /\ pc' = [pc EXCEPT ![pf] = "fail_setError"]
    /\ UNCHANGED <<cfgVars, fileVars, portVars, backupVars, wait, resolve, recordVars, handleVars, selCtx, delay, engine,
                   probeVars, stopPc, busVars, calcVars, runVars, kicked>>

\* ... case <-time.After(30 * time.Second): close(stopChan); return the timeout error }
SupReadyTimeout(pf) ==
    /\ pc[pf] = "wait_ready"
    /\ engine' = [engine EXCEPT ![pf] = "none"]
    /\ err' = [err EXCEPT ![pf] = ErrTimeout]
    /\ pc' = [pc EXCEPT ![pf] = "fail_setError"]
    /\ UNCHANGED <<cfgVars, fileVars, portVars, backupVars, wait, resolve, recordVars, handleVars, selCtx, delay,
                   probeVars, stopPc, busVars, calcVars, runVars, kicked>>

\* variant of SupActSetState that publishes right after the write of State
SupActSetStatePublishes(pf) ==
    /\ pc[pf] = "act_setState"
    /\ ~Locked(pf)
    /\ State' = [State EXCEPT ![pf] = StateActive]
    /\ failRun' = [failRun EXCEPT ![pf] = 0]
    /\ longRun' = [longRun EXCEPT ![pf] = failRun[pf] >= 2]
    /\ unpub' = [unpub EXCEPT ![pf] = IF StateActive # State[pf] THEN @ \cup {"State"} ELSE @]
    /\ pc' = [pc EXCEPT ![pf] = "act_notify"]
    /\ UNCHANGED <<cfgVars, fileVars, portVars, backupVars, wait, resolve, Error, RetryCount, ReconnectAt, LastCheck, handleVars,
                   selCtx, err, delay, engine, probeVars, stopPc, busVars, calcVars, kicked>>

\* pf.setState(StateActive)
SupActSetState(pf) ==
    /\ pc[pf] = "act_setState"
    /\ ~Locked(pf)
    /\ State' = [State EXCEPT ![pf] = StateActive]
    /\ failRun' = [failRun EXCEPT ![pf] = 0]
    /\ longRun' = [longRun EXCEPT ![pf] = failRun[pf] >= 2]
    /\ unpub' = [unpub EXCEPT ![pf] = IF StateActive # State[pf] THEN @ \cup {"State"} ELSE @]
    /\ pc' = [pc EXCEPT ![pf] = "act_setError"]
    /\ UNCHANGED <<cfgVars, fileVars, portVars, backupVars, wait, resolve, Error, RetryCount, ReconnectAt, LastCheck, handleVars,
                   selCtx, err, delay, engine, probeVars, stopPc, busVars, calcVars, kicked>>

\* pf.setError("")
SupActSetError(pf) ==
    /\ pc[pf] = "act_setError"
    /\ ~Locked(pf)
    /\ Error' = [Error EXCEPT ![pf] = ""]
    /\ unpub' = [unpub EXCEPT ![pf] = IF "" # Error[pf] THEN @ \cup {"Error"} ELSE @]
    /\ pc' = [pc EXCEPT ![pf] = "act_reset"]
    /\ UNCHANGED <<cfgVars, fileVars, portVars, backupVars, wait, resolve, State, RetryCount, ReconnectAt, LastCheck, handleVars,
                   selCtx, err, delay, engine, probeVars, stopPc, busVars, calcVars, failRun, longRun, kicked>>

\* variant of SupActReset that leaves RetryCount as it is
SupActResetKeepsCount(pf) ==
    /\ pc[pf] = "act_reset"
    /\ ~Locked(pf)
    /\ pc' = [pc EXCEPT ![pf] = "act_notify"]
    /\ UNCHANGED <<cfgVars, fileVars, portVars, backupVars, wait, resolve, recordVars, handleVars, selCtx, err, delay, engine,
                   probeVars, stopPc, busVars, calcVars, runVars, kicked>>

\* pf.mu.Lock(); pf.RetryCount = 0; pf.mu.Unlock()
SupActReset(pf) ==
    /\ pc[pf] = "act_reset"
    /\ ~Locked(pf)
    /\ RetryCount' = [RetryCount EXCEPT ![pf] = 0]
    /\ pc' = [pc EXCEPT ![pf] = "act_notify"]
    /\ UNCHANGED <<cfgVars, fileVars, portVars, backupVars, wait, resolve, State, Error, ReconnectAt, LastCheck, handleVars,
                   selCtx, err, delay, engine, probeVars, stopPc, busVars, calcVars,
                   runVars, kicked>>

\* m.notifyUpdate(pf); then the select on errChan and pf.ctx.Done() is entered
SupActNotify(pf) ==
    /\ pc[pf] = "act_notify"
    /\ Publish(pf)
    /\ unpub' = [unpub EXCEPT ![pf] = {}]
    /\ selCtx' = [selCtx EXCEPT ![pf] = ctx[pf]]
    /\ pc' = [pc EXCEPT ![pf] = "active_wait"]
    /\ UNCHANGED <<cfgVars, fileVars, portVars, backupVars, wait, resolve, recordVars, handleVars, err, delay, engine,
                   probeVars, stopPc, calcVars, failRun, longRun, kicked>>

\* select { case err := <-errChan: return an error, never nil ...
SupActiveErr(pf) ==
    /\ pc[pf] = "active_wait"
    /\ engine[pf] \in {"ended_err", "ended_nil"}
    /\ err' = [err EXCEPT ![pf] = IF engine[pf] = "ended_err" THEN ErrPortForward
                                                             ELSE ErrClosed]
    /\ engine' = [engine EXCEPT ![pf] = "none"]
    /\ pc' = [pc EXCEPT ![pf] = "fail_setError"]
    /\ UNCHANGED <<cfgVars, fileVars, portVars, backupVars, wait, resolve, recordVars, handleVars, selCtx, delay,
                   probeVars, stopPc, busVars, calcVars, runVars, kicked>>

\* ... case <-pf.ctx.Done(): close(stopChan); return nil }
SupActiveCtxDone(pf) ==
    /\ pc[pf] = "active_wait"
    /\ selCtx[pf] \in cancelled[pf]
    /\ engine' = [engine EXCEPT ![pf] = "none"]
    /\ pc' = [pc EXCEPT ![pf] = "loop"]
    /\ UNCHANGED <<cfgVars, fileVars, portVars, backupVars, wait, resolve, recordVars, handleVars, selCtx, err, delay,
                   probeVars, stopPc, busVars, calcVars, runVars, kicked>>

(* runPortForward: establishPortForward returned an error *)

\* variant of SupFailSetError that records no error text
SupFailSetErrorEmpty(pf) ==
    /\ pc[pf] = "fail_setError"
    /\ ~Locked(pf)
    /\ Error' = [Error EXCEPT ![pf] = ""]
    /\ unpub' = [unpub EXCEPT ![pf] = IF "" # Error[pf] THEN @ \cup {"Error"} ELSE @]
    /\ pc' = [pc EXCEPT ![pf] = "fail_setState"]
    /\ UNCHANGED <<cfgVars, fileVars, portVars, backupVars, wait, resolve, State, RetryCount, ReconnectAt, LastCheck, handleVars,
                   selCtx, err, delay, engine, probeVars, stopPc, busVars, calcVars, failRun, longRun, kicked>>

\* pf.setError(err.Error())
SupFailSetError(pf) ==
    /\ pc[pf] = "fail_setError"
    /\ ~Locked(pf)
    /\ Error' = [Error EXCEPT ![pf] = err[pf]]
    /\ unpub' = [unpub EXCEPT ![pf] = IF err[pf] # Error[pf] THEN @ \cup {"Error"} ELSE @]
    /\ pc' = [pc EXCEPT ![pf] = "fail_setState"]
    /\ UNCHANGED <<cfgVars, fileVars, portVars, backupVars, wait, resolve, State, RetryCount, ReconnectAt, LastCheck, handleVars,
                   selCtx, err, delay, engine, probeVars, stopPc, busVars, calcVars, failRun, longRun, kicked>>

\* variant of SupFailSetState that gives the record up as Failed after a second failure
SupFailSetStateFailed(pf) ==
    /\ pc[pf] = "fail_setState"
    /\ ~Locked(pf)
    /\ State' = [State EXCEPT ![pf] = IF RetryCount[pf] >= 1 THEN StateFailed
                                                              ELSE StateReconnecting]
    /\ unpub' = [unpub EXCEPT ![pf] = @ \cup {"State"}]
    /\ kicked' = [kicked EXCEPT ![pf] = FALSE]
    /\ pc' = [pc EXCEPT ![pf] = "fail_notify"]
    /\ UNCHANGED <<cfgVars, fileVars, portVars, backupVars, wait, resolve, Error, RetryCount, ReconnectAt, LastCheck, handleVars,
                   selCtx, err, delay, engine, probeVars, stopPc, busVars, calcVars,
                   failRun, longRun>>

\* pf.setState(StateReconnecting)
SupFailSetState(pf) ==
    /\ pc[pf] = "fail_setState"
    /\ ~Locked(pf)
    /\ State' = [State EXCEPT ![pf] = StateReconnecting]
    /\ kicked' = [kicked EXCEPT ![pf] = FALSE]
    /\ unpub' = [unpub EXCEPT ![pf] = IF StateReconnecting # State[pf] THEN @ \cup {"State"} ELSE @]
    /\ pc' = [pc EXCEPT ![pf] = "fail_notify"]
    /\ UNCHANGED <<cfgVars, fileVars, portVars, backupVars, wait, resolve, Error, RetryCount, ReconnectAt, LastCheck, handleVars,
                   selCtx, err, delay, engine, probeVars, stopPc, busVars, calcVars,
                   failRun, longRun>>

\* variant of SupFailNotify that leaves out the call of notifyUpdate
SupFailNotifySkipped(pf) ==
    /\ pc[pf] = "fail_notify"
    /\ pc' = [pc EXCEPT ![pf] = "fail_backoff"]
    /\ UNCHANGED <<cfgVars, fileVars, portVars, backupVars, wait, resolve, recordVars, handleVars, selCtx, err, delay, engine,
                   probeVars, stopPc, busVars, calcVars, runVars, kicked>>

\* m.notifyUpdate(pf)
SupFailNotify(pf) ==
    /\ pc[pf] = "fail_notify"
    /\ Publish(pf)
    /\ unpub' = [unpub EXCEPT ![pf] = {}]
    /\ pc' = [pc EXCEPT ![pf] = "fail_backoff"]
    /\ UNCHANGED <<cfgVars, fileVars, portVars, backupVars, wait, resolve, recordVars, handleVars, selCtx, err, delay, engine,
                   probeVars, stopPc, calcVars, failRun, longRun, kicked>>

\* delay := m.calculateBackoff(pf.RetryCount); pf.ReconnectAt = time.Now().Add(delay);
\* pf.RetryCount++; then the select on time.After(delay) and pf.ctx.Done() is entered
SupFailBackoff(pf, cap) ==
    /\ pc[pf] = "fail_backoff"
    /\ ~Locked(pf)
    /\ RetryCount[pf] < cap
    /\ delay' = [delay EXCEPT ![pf] = calculateBackoff(RetryCount[pf])]
    /\ ReconnectAt' = [ReconnectAt EXCEPT
                         ![pf] = [set |-> TRUE, after |-> calculateBackoff(RetryCount[pf])]]
    /\ RetryCount' = [RetryCount EXCEPT ![pf] = @ + 1]
    /\ failRun' = [failRun EXCEPT ![pf] = @ + 1]
    /\ err' = [err EXCEPT ![pf] = NoErr]
    /\ selCtx' = [selCtx EXCEPT ![pf] = ctx[pf]]
    /\ pc' = [pc EXCEPT ![pf] = "backoff_wait"]
    /\ UNCHANGED <<cfgVars, fileVars, portVars, backupVars, wait, resolve, State, Error, LastCheck, handleVars, engine,
                   probeVars, stopPc, busVars, calcVars, longRun, unpub, kicked>>

\* variant of SupBackoffElapsed that returns from runPortForward after the wait
SupBackoffGivesUp(pf) ==
    /\ pc[pf] = "backoff_wait"
    /\ pc' = [pc EXCEPT ![pf] = "exited"]
    /\ UNCHANGED <<cfgVars, fileVars, portVars, backupVars, wait, resolve, recordVars, handleVars, selCtx, err, delay,
                   engine, probeVars, stopPc, busVars, calcVars, runVars, kicked>>

\* select { case <-time.After(delay): continue ...: the timer fires and its case
\* is taken. The select takes the case of the channel that is ready first, so
\* after the context was cancelled during a wait of positive length the
\* timer's case is taken no more; with a delay that is not positive both
\* channels are ready when the select is entered
SupBackoffElapsed(pf) ==
    /\ pc[pf] = "backoff_wait"
    /\ selCtx[pf] \notin cancelled[pf] \/ ~W64Gt(delay[pf], W64Zero)
    /\ pc' = [pc EXCEPT ![pf] = "loop"]
    /\ delay' = [delay EXCEPT ![pf] = W64Zero]
    /\ UNCHANGED <<cfgVars, fileVars, portVars, backupVars, wait, resolve, recordVars, handleVars, selCtx, err, engine,
                   probeVars, stopPc, busVars, calcVars, runVars, kicked>>

\* ... case <-pf.ctx.Done(): return }
SupBackoffCtxDone(pf) ==
    /\ pc[pf] = "backoff_wait"
    /\ selCtx[pf] \in cancelled[pf]
    /\ pc' = [pc EXCEPT ![pf] = "exited"]
    /\ UNCHANGED <<cfgVars, fileVars, portVars, backupVars, wait, resolve, recordVars, handleVars, selCtx, err, delay, engine,
                   probeVars, stopPc, busVars, calcVars, runVars, kicked>>

----------------------------------------------------------------------------
(* fw.ForwardPorts(): the forwarder of the current attempt *)

\* the local port, free of any other listener, is bound and the stream is live:
\* readyChan is closed
EngineReady(pf) ==
    /\ engine[pf] = "starting"
    /\ listener[LocalPort(pf)] = NoListener
    /\ engine' = [engine EXCEPT ![pf] = "ready"]
    /\ UNCHANGED <<cfgVars, fileVars, portVars, backupVars, wait, resolve, recordVars, handleVars, pc, selCtx, err, delay,
                   probeVars, stopPc, busVars, calcVars, runVars, kicked>>

\* ForwardPorts returns before ready: errChan holds a non-nil error
EngineFail(pf) ==
    /\ engine[pf] = "starting"
    /\ engine' = [engine EXCEPT ![pf] = "failed"]
    /\ UNCHANGED <<cfgVars, fileVars, portVars, backupVars, wait, resolve, recordVars, handleVars, pc, selCtx, err, delay,
                   probeVars, stopPc, busVars, calcVars, runVars, kicked>>

\* ForwardPorts returns after ready: errChan holds an error or nil
EngineEnd(pf) ==
    /\ engine[pf] = "ready"
    /\ \E e \in {"ended_err", "ended_nil"} : engine' = [engine EXCEPT ![pf] = e]
    /\ UNCHANGED <<cfgVars, fileVars, portVars, backupVars, wait, resolve, recordVars, handleVars, pc, selCtx, err, delay,
                   probeVars, stopPc, busVars, calcVars, runVars, kicked>>

----------------------------------------------------------------------------
(* healthMonitor and checkHealth *)

\* a tick of healthMonitor: go m.checkHealth(pf) for every forward
HealthTick ==
    /\ Started
    /\ \A pf \in forwards : hpc[pf] = "idle"
    /\ hpc' = [pf \in AllForwards |-> IF pf \in forwards THEN "snapshot" ELSE hpc[pf]]
    /\ UNCHANGED <<cfgVars, fileVars, portVars, backupVars, wait, resolve, recordVars, handleVars, pc, selCtx, err, delay, engine,
                   currentState, stopPc, busVars, calcVars, runVars, kicked>>

\* pf.mu.Lock(); pf.LastCheck = time.Now(); currentState := pf.State; pf.mu.Unlock();
\* if currentState != StateActive { return }
CheckHealthSnapshot(pf) ==
    /\ hpc[pf] = "snapshot"
    /\ LastCheck' = [LastCheck EXCEPT ![pf] = 1]
    /\ currentState' = [currentState EXCEPT ![pf] = State[pf]]
    /\ hpc' = [hpc EXCEPT ![pf] = IF State[pf] = StateActive THEN "dial" ELSE "idle"]
    /\ UNCHANGED <<cfgVars, fileVars, portVars, backupVars, wait, resolve, State, Error, RetryCount, ReconnectAt, handleVars, pc,
                   selCtx, err, delay, engine, stopPc, busVars, calcVars, runVars, kicked>>

\* net.DialTimeout succeeds: conn.Close()
CheckHealthDialOk(pf) ==
    /\ hpc[pf] = "dial"
    /\ hpc' = [hpc EXCEPT ![pf] = "idle"]
    /\ UNCHANGED <<cfgVars, fileVars, portVars, backupVars, wait, resolve, recordVars, handleVars, pc, selCtx, err, delay, engine,
                   currentState, stopPc, busVars, calcVars, runVars, kicked>>

\* a probe that marks the record Reconnecting itself when its dial fails
CheckHealthDialFailMarks(pf) ==
    /\ hpc[pf] = "dial"
    /\ nctx[pf] < MaxCtx
    /\ hpc' = [hpc EXCEPT ![pf] = "cancel"]
    /\ State' = [State EXCEPT ![pf] = StateReconnecting]
    /\ UNCHANGED <<cfgVars, fileVars, portVars, backupVars, wait, resolve, Error, RetryCount, ReconnectAt, LastCheck,
                   handleVars, pc, selCtx, err, delay, engine,
                   currentState, stopPc, busVars, calcVars, runVars, kicked>>

\* net.DialTimeout fails
CheckHealthDialFail(pf) ==
    /\ hpc[pf] = "dial"
    /\ nctx[pf] < MaxCtx
    /\ hpc' = [hpc EXCEPT ![pf] = "cancel"]
    /\ UNCHANGED <<cfgVars, fileVars, portVars, backupVars, wait, resolve, recordVars, handleVars, pc, selCtx, err, delay, engine,
                   currentState, stopPc, busVars, calcVars, runVars, kicked>>

\* a probe that calls the cancel function of every record
CheckHealthCancelAll(pf) ==
    /\ hpc[pf] = "cancel"
    /\ cancelled' = [p \in AllForwards |-> cancelled[p] \cup {cancel[p]}]
    /\ kicked' = [kicked EXCEPT ![pf] = @ \/ (State[pf] = StateActive /\ pc[pf] = "active_wait")]
    /\ hpc' = [hpc EXCEPT ![pf] = "set_ctx"]
    /\ UNCHANGED <<cfgVars, fileVars, portVars, backupVars, wait, resolve, recordVars, ctx, cancel, nctx, pc, selCtx, err, delay,
                   engine, currentState, stopPc, busVars, calcVars, runVars>>

\* variant of CheckHealthCancel that replaces the handle without cancelling the old one
CheckHealthCancelSkipped(pf) ==
    /\ hpc[pf] = "cancel"
    /\ hpc' = [hpc EXCEPT ![pf] = "set_ctx"]
    /\ UNCHANGED <<cfgVars, fileVars, portVars, backupVars, wait, resolve, recordVars, handleVars, pc, selCtx, err, delay,
                   engine, currentState, stopPc, busVars, calcVars, runVars, kicked>>

\* pf.cancel(), read and called without the record's lock
CheckHealthCancel(pf) ==
    /\ hpc[pf] = "cancel"
    /\ cancelled' = [cancelled EXCEPT ![pf] = @ \cup {cancel[pf]}]
    /\ kicked' = [kicked EXCEPT ![pf] = @ \/ (State[pf] = StateActive /\ pc[pf] = "active_wait")]
    /\ hpc' = [hpc EXCEPT ![pf] = "set_ctx"]
    /\ UNCHANGED <<cfgVars, fileVars, portVars, backupVars, wait, resolve, recordVars, ctx, cancel, nctx, pc, selCtx, err, delay,
                   engine, currentState, stopPc, busVars, calcVars, runVars>>

\* ctx, cancel := context.WithCancel(...); pf.mu.Lock(); pf.ctx = ctx
CheckHealthSetCtx(pf) ==
    /\ hpc[pf] = "set_ctx"
    /\ nctx' = [nctx EXCEPT ![pf] = @ + 1]
    /\ ctx' = [ctx EXCEPT ![pf] = nctx[pf] + 1]
    /\ hpc' = [hpc EXCEPT ![pf] = "set_cancel"]
    /\ UNCHANGED <<cfgVars, fileVars, portVars, backupVars, wait, resolve, recordVars, cancel, cancelled, pc, selCtx, err, delay,
                   engine, currentState, stopPc, busVars, calcVars, runVars, kicked>>

\* pf.cancel = cancel; pf.mu.Unlock(); return
CheckHealthSetCancel(pf) ==
    /\ hpc[pf] = "set_cancel"
    /\ cancel' = [cancel EXCEPT ![pf] = ctx[pf]]
    /\ hpc' = [hpc EXCEPT ![pf] = "idle"]
    /\ UNCHANGED <<cfgVars, fileVars, portVars, backupVars, wait, resolve, recordVars, ctx, cancelled, nctx, pc, selCtx, err, delay,
                   engine, currentState, stopPc, busVars, calcVars, runVars, kicked>>

----------------------------------------------------------------------------
(* Stop *)

\* Stop(), called by the signal handler or by the TUI on its quit key:
\* for _, pf := range m.forwards { pf.cancel() }, one iteration, without the record's lock
StopCancel(pf) ==
    /\ Started
    /\ stopPc = pf - 1
    /\ cancelled' = [cancelled EXCEPT ![pf] = @ \cup {cancel[pf]}]
    /\ stopPc' = pf
    /\ UNCHANGED <<cfgVars, fileVars, portVars, backupVars, wait, resolve, recordVars, ctx, cancel, nctx, pc, selCtx, err, delay,
                   engine, probeVars, busVars, calcVars, runVars, kicked>>

\* Stop was called: it has cancelled its first forward
StopCalled == stopPc > 0

----------------------------------------------------------------------------
(* the update channel *)

\* the consumer of GetUpdateChannel(): waitForUpdate receives one update
Receive ==
    /\ updateChan # <<>>
    /\ updateChan' = Tail(updateChan)
    /\ lastRecv' = [lastRecv EXCEPT ![Head(updateChan)[1]] = Head(updateChan)[2]]
    /\ UNCHANGED <<cfgVars, fileVars, portVars, backupVars, wait, resolve, recordVars, handleVars, pc, selCtx, err, delay, engine,
                   probeVars, stopPc, pubCount, droppedPubs, calcVars, runVars, kicked>>

\* a supervisor calls m.notifyUpdate(pf); the call is numbered
NotifyUpdateCall(pf) ==
    /\ Started
    /\ pubCount[pf] < MaxPub
    /\ notifyUpdate(pf, pubCount[pf] + 1)
    /\ pubCount' = [pubCount EXCEPT ![pf] = @ + 1]
    /\ droppedPubs' = [droppedPubs EXCEPT
                         ![pf] = IF <<pf, pubCount[pf] + 1>> \in
                                      {updateChan'[i] : i \in 1..Len(updateChan')}
                                 THEN @ ELSE @ \cup {pubCount[pf] + 1}]
    /\ UNCHANGED <<cfgVars, fileVars, portVars, backupVars, wait, resolve, recordVars, handleVars, pc, selCtx, err, delay, engine,
                   probeVars, stopPc, lastRecv, calcVars, runVars, kicked>>

----------------------------------------------------------------------------
(* BackupAllDatabases: the backup collaborator, on the record of one forward *)

otherVars == <<backupAll, wait, resolve, recordVars, handleVars, pc, selCtx, err, delay, engine, probeVars,
               stopPc, busVars, calcVars, runVars, kicked>>

\* pf.setBackupState(BackupPending)
BackupMarkPending(pf) ==
    /\ Started
    /\ BackupState[pf] = BackupNone
    /\ ~Locked(pf)
    /\ BackupState' = [BackupState EXCEPT ![pf] = BackupPending]
    /\ UNCHANGED <<cfgVars, fileVars, portVars, BackupError, otherVars>>

\* WaitForPortForward returned nil: pf.GetState() was Active; pf.setBackupState(BackupRunning)
BackupWaitActive(pf) ==
    /\ BackupState[pf] = BackupPending
    /\ ~Locked(pf)
    /\ State[pf] = StateActive
    /\ BackupState' = [BackupState EXCEPT ![pf] = BackupRunning]
    /\ UNCHANGED <<cfgVars, fileVars, portVars, BackupError, otherVars>>

\* WaitForPortForward returned an error (Stopped or Failed seen, or the deadline
\* passed); pf.setBackupState(BackupFailed); pf.setBackupError(err.Error())
BackupWaitFailed(pf) ==
    /\ BackupState[pf] = BackupPending
    /\ ~Locked(pf)
    /\ BackupState' = [BackupState EXCEPT ![pf] = BackupFailed]
    /\ BackupError' = [BackupError EXCEPT
                         ![pf] = IF State[pf] \in {StateStopped, StateFailed}
                                 THEN ErrInvalidState ELSE ErrWaitTimeout]
    /\ UNCHANGED <<cfgVars, fileVars, portVars, otherVars>>

\* GetDatabaseCredentials or BackupDatabase failed
BackupRunFailed(pf) ==
    /\ BackupState[pf] = BackupRunning
    /\ ~Locked(pf)
    /\ BackupState' = [BackupState EXCEPT ![pf] = BackupFailed]
    /\ BackupError' = [BackupError EXCEPT ![pf] = ErrBackup]
    /\ UNCHANGED <<cfgVars, fileVars, portVars, otherVars>>

\* pf.setBackupCompleted(sizeMB)
BackupRunCompleted(pf) ==
    /\ BackupState[pf] = BackupRunning
    /\ ~Locked(pf)
    /\ BackupState' = [BackupState EXCEPT ![pf] = BackupCompleted]
    /\ BackupError' = [BackupError EXCEPT ![pf] = ""]
    /\ UNCHANGED <<cfgVars, fileVars, portVars, otherVars>>

----------------------------------------------------------------------------
(* main: CheckAndKillConflictingPorts, NewPortForwardManager, Initialize *)

restVars == <<backupVars, wait, resolve, recordVars, handleVars, pc, selCtx, err, delay, engine,
              probeVars, stopPc, busVars, calcVars, runVars, kicked>>

\* config, err := LoadConfig(path); main exits on an error
LoadConfigStep ==
    /\ mainPc = "load_config"
    /\ loaded' = LoadConfig(file)
    /\ IF loaded'.err = "nil"
       THEN config' = ConfigOf(loaded') /\ mainPc' = "check_ports"
       ELSE config' = config /\ mainPc' = "exit1"
    /\ UNCHANGED <<forwards, file, listener, checked, found, sigterms, portErr, restVars>>

\* findProcessUsingPort: the listener as lsof or ss report it, or no PID when
\* neither reports one
findProcessUsingPort(port) ==
    {[pid |-> 0, name |-> <<>>]} \cup
    {[pid |-> listener[port].pid, name |-> getProcessName(listener[port].cmdline)]}

\* checkAndKillPortConflict(port) for a found process and the outcome of
\* process.Signal(syscall.SIGTERM): the error returned
checkAndKillPortConflict(port, f, signalled) ==
    IF f.pid = 0 THEN NoPortErr
    ELSE IF ~Contains(f.name, ProgramName) THEN ErrForeignProcess(port, f.name, f.pid)
    ELSE IF f.pid = SelfPid THEN NoPortErr
    ELSE IF ~signalled THEN ErrKillFailed(f.pid)
    ELSE NoPortErr

\* variant of Killed that does not look at the name of the process
KilledWhateverName(f, signalled) ==
    f.pid # 0 /\ f.pid # SelfPid /\ signalled

\* the SIGTERM is delivered when the process found is killed and Signal succeeds
Killed(f, signalled) ==
    f.pid # 0 /\ Contains(f.name, ProgramName) /\ f.pid # SelfPid /\ signalled

\* variant of CheckPort that goes on to Initialize whatever the check returned
CheckPortIgnoringError(port) ==
    /\ mainPc = "check_ports"
    /\ port \in ConfiguredPorts \ checked
    /\ \E f \in findProcessUsingPort(port), signalled \in BOOLEAN :
          /\ found' = [found EXCEPT ![port] = f]
          /\ portErr' = [portErr EXCEPT
                           ![port] = checkAndKillPortConflict(port, f, signalled)]
          /\ sigterms' = IF Killed(f, signalled)
                         THEN [sigterms EXCEPT ![f.pid] = @ + 1] ELSE sigterms
    /\ checked' = checked \cup {port}
    /\ mainPc' = IF checked' = ConfiguredPorts THEN "initialize" ELSE "check_ports"
    /\ UNCHANGED <<cfgVars, fileVars, listener, restVars>>

\* one iteration of CheckAndKillConflictingPorts' loop over the configured
\* ports, in the order of the map's range; main exits on the first error
CheckPort(port) ==
    /\ mainPc = "check_ports"
    /\ port \in ConfiguredPorts \ checked
    /\ \E f \in findProcessUsingPort(port), signalled \in BOOLEAN :
          /\ found' = [found EXCEPT ![port] = f]
          /\ portErr' = [portErr EXCEPT
                           ![port] = checkAndKillPortConflict(port, f, signalled)]
          /\ sigterms' = IF Killed(f, signalled)
                         THEN [sigterms EXCEPT ![f.pid] = @ + 1] ELSE sigterms
    /\ checked' = checked \cup {port}
    /\ mainPc' = IF portErr'[port] # NoPortErr THEN "exit1"
                 ELSE IF checked' = ConfiguredPorts THEN "initialize"
                 ELSE "check_ports"
    /\ UNCHANGED <<cfgVars, fileVars, listener, restVars>>

\* a process that was sent SIGTERM exits and its ports are free
PeerExit(pid) ==
    /\ sigterms[pid] > 0
    /\ \E p \in AllForwards : listener[p].pid = pid
    /\ listener' = [p \in AllForwards |->
                       IF listener[p].pid = pid THEN NoListener ELSE listener[p]]
    /\ UNCHANGED <<cfgVars, fileVars, mainPc, checked, found, sigterms, portErr, restVars>>

\* manager := NewPortForwardManager(config); manager.Initialize(), which
\* fails when a kubeconfig cannot be loaded
Initialize ==
    /\ mainPc = "initialize"
    /\ \/ /\ forwards' = config.Forwards
          /\ mainPc' = "start"
       \/ /\ mainPc' = "exit1"
          /\ UNCHANGED forwards
    /\ UNCHANGED <<config, fileVars, listener, checked, found, sigterms, portErr, restVars>>

----------------------------------------------------------------------------
(* calculateBackoff applied to retryArg *)

CalcBackoff ==
    /\ ~backoffRes.done
    /\ backoffRes' = [done |-> TRUE, val |-> calculateBackoff(retryArg)]
    /\ UNCHANGED <<cfgVars, fileVars, portVars, backupVars, wait, resolve, recordVars, handleVars, pc, selCtx, err, delay, engine,
                   probeVars, stopPc, busVars, retryArg, runVars, kicked>>

----------------------------------------------------------------------------
(* Spec: one record with its supervisor, its forwarder, its probes, Stop and the consumer *)
Next ==
    \/ Start
    \/ \E pf \in forwards : SupLoop(pf)
    \/ \E pf \in forwards : SupStopSetState(pf)
    \/ \E pf \in forwards : SupStopNotify(pf)
    \/ \E pf \in forwards : SupFindPod(pf)
    \/ \E pf \in forwards : SupOpen(pf)
    \/ \E pf \in forwards : SupReady(pf)
    \/ \E pf \in forwards : SupErrChan(pf)
    \/ \E pf \in forwards : SupReadyTimeout(pf)
    \/ \E pf \in forwards : SupActSetState(pf)
    \/ \E pf \in forwards : SupActSetError(pf)
    \/ \E pf \in forwards : SupActReset(pf)
    \/ \E pf \in forwards : SupActNotify(pf)
    \/ \E pf \in forwards : SupActiveErr(pf)
    \/ \E pf \in forwards : SupActiveCtxDone(pf)
    \/ \E pf \in forwards : SupFailSetError(pf)
    \/ \E pf \in forwards : SupFailSetState(pf)
    \/ \E pf \in forwards : SupFailNotify(pf)
    \/ \E pf \in forwards : SupFailBackoff(pf, MaxRetry)
    \/ \E pf \in forwards : SupBackoffElapsed(pf)
    \/ \E pf \in forwards : SupBackoffCtxDone(pf)
    \/ \E pf \in forwards : EngineReady(pf)
    \/ \E pf \in forwards : EngineFail(pf)
    \/ \E pf \in forwards : EngineEnd(pf)
    \/ HealthTick
    \/ \E pf \in forwards : CheckHealthSnapshot(pf)
    \/ \E pf \in forwards : CheckHealthDialOk(pf)
    \/ \E pf \in forwards : CheckHealthDialFail(pf)
    \/ \E pf \in forwards : CheckHealthCancel(pf)
    \/ \E pf \in forwards : CheckHealthSetCtx(pf)
    \/ \E pf \in forwards : CheckHealthSetCancel(pf)
    \/ \E pf \in forwards : StopCancel(pf)
    \/ Receive
    \/ \E pf \in forwards : BackupMarkPending(pf)
    \/ \E pf \in forwards : BackupWaitActive(pf)
    \/ \E pf \in forwards : BackupWaitFailed(pf)
    \/ \E pf \in forwards : BackupRunFailed(pf)
    \/ \E pf \in forwards : BackupRunCompleted(pf)

Spec == Init /\ [][Next]_vars

(* SpecBackoff: long runs of failures of a supervisor, without probes and without Stop *)
InitBackoff == InitWith(DelayChoices, 1, {0})

NextBackoff ==
    \/ Start
    \/ \E pf \in forwards : SupLoop(pf)
    \/ \E pf \in forwards : SupFindPod(pf)
    \/ \E pf \in forwards : SupOpen(pf)
    \/ \E pf \in forwards : SupReady(pf)
    \/ \E pf \in forwards : SupErrChan(pf)
    \/ \E pf \in forwards : SupReadyTimeout(pf)
    \/ \E pf \in forwards : SupActSetState(pf)
    \/ \E pf \in forwards : SupActSetError(pf)
    \/ \E pf \in forwards : SupActReset(pf)
    \/ \E pf \in forwards : SupActNotify(pf)
    \/ \E pf \in forwards : SupActiveErr(pf)
    \/ \E pf \in forwards : SupFailSetError(pf)
    \/ \E pf \in forwards : SupFailSetState(pf)
    \/ \E pf \in forwards : SupFailNotify(pf)
    \/ \E pf \in forwards : SupFailBackoff(pf, MaxRetryLong)
    \/ \E pf \in forwards : SupBackoffElapsed(pf)
    \/ \E pf \in forwards : EngineReady(pf)
    \/ \E pf \in forwards : EngineFail(pf)
    \/ \E pf \in forwards : EngineEnd(pf)
    \/ Receive

SpecBackoff == InitBackoff /\ [][NextBackoff]_vars

(* SpecCalc: calculateBackoff on every retryCount up to MaxShift *)
InitCalc == InitWith(DelayChoices, 1, 0..MaxShift)

NextCalc == CalcBackoff

SpecCalc == InitCalc /\ [][NextCalc]_vars

(* SpecBus: the update channel under numbered publications and a consumer *)
NextBus ==
    \/ Start
    \/ \E pf \in forwards : NotifyUpdateCall(pf)
    \/ Receive

SpecBus == Init /\ [][NextBus]_vars

(* SpecConfig: LoadConfig on every file tried *)
InitConfig ==
    /\ file \in ConfigFiles
    /\ loaded = NotLoaded
    /\ config = ConfigOf(LoadConfig(BaseFile(Unset, 1)))
    /\ InitRecords(1, {0}, "load_config")
    /\ resolve = NoResolve
    /\ backupAll = NoBackupAll

NextConfig == LoadConfigStep

SpecConfig == InitConfig /\ [][NextConfig]_vars

(* SpecPorts: the port conflict resolver on every configured port, for every *)
(* listener a port can have, up to the start of the supervisors              *)
InitPorts == InitAll(DefaultDelay, MaxForwards, {0}, "check_ports")

NextPorts ==
    \/ \E port \in AllForwards : CheckPort(port)
    \/ \E pid \in Pids : PeerExit(pid)
    \/ Initialize
    \/ Start

SpecPorts == InitPorts /\ [][NextPorts]_vars

(* SpecMain: main from the port check to the supervisor of one forward, for *)
(* every listener its port can have                                         *)
InitMain == InitAll(DefaultDelay, 1, {0}, "check_ports")

NextMain ==
    \/ \E port \in AllForwards : CheckPort(port)
    \/ \E pid \in Pids : PeerExit(pid)
    \/ Initialize
    \/ Start
    \/ \E pf \in forwards : SupLoop(pf)
    \/ \E pf \in forwards : SupFindPod(pf)
    \/ \E pf \in forwards : SupOpen(pf)
    \/ \E pf \in forwards : SupReady(pf)
    \/ \E pf \in forwards : SupErrChan(pf)
    \/ \E pf \in forwards : SupReadyTimeout(pf)
    \/ \E pf \in forwards : SupActSetState(pf)
    \/ \E pf \in forwards : SupActSetError(pf)
    \/ \E pf \in forwards : SupActReset(pf)
    \/ \E pf \in forwards : SupActNotify(pf)
    \/ \E pf \in forwards : SupActiveErr(pf)
    \/ \E pf \in forwards : SupFailSetError(pf)
    \/ \E pf \in forwards : SupFailSetState(pf)
    \/ \E pf \in forwards : SupFailNotify(pf)
    \/ \E pf \in forwards : SupFailBackoff(pf, MaxRetry)
    \/ \E pf \in forwards : SupBackoffElapsed(pf)
    \/ \E pf \in forwards : EngineReady(pf)
    \/ \E pf \in forwards : EngineFail(pf)
    \/ \E pf \in forwards : EngineEnd(pf)
    \/ Receive

SpecMain == InitMain /\ [][NextMain]_vars

(* SpecEvict: as SpecMain, where a Running pod exists, the forwarder can be *)
(* built, and its only failure is a bind on a port that a listener holds,   *)
(* at most MaxRetry times; every goroutine is scheduled fairly and a        *)
(* process that got a SIGTERM exits                                         *)

\* findPod finds a Running pod
SupFindPodFound(pf) == SupFindPod(pf) /\ pc'[pf] = "open"

\* the forwarder is built and started
SupOpenStarted(pf) == SupOpen(pf) /\ pc'[pf] = "wait_ready"

\* ForwardPorts cannot listen on the local port: another process holds it
EngineBindFail(pf) ==
    /\ engine[pf] = "starting"
    /\ listener[LocalPort(pf)] # NoListener
    /\ RetryCount[pf] < MaxRetry
    /\ EngineFail(pf)

NextEvict ==
    \/ \E port \in AllForwards : CheckPort(port)
    \/ \E pid \in Pids : PeerExit(pid)
    \/ Initialize
    \/ Start
    \/ \E pf \in forwards : SupLoop(pf)
    \/ \E pf \in forwards : SupFindPodFound(pf)
    \/ \E pf \in forwards : SupOpenStarted(pf)
    \/ \E pf \in forwards : SupReady(pf)
    \/ \E pf \in forwards : SupErrChan(pf)
    \/ \E pf \in forwards : SupActSetState(pf)
    \/ \E pf \in forwards : SupActSetError(pf)
    \/ \E pf \in forwards : SupActReset(pf)
    \/ \E pf \in forwards : SupActNotify(pf)
    \/ \E pf \in forwards : SupFailSetError(pf)
    \/ \E pf \in forwards : SupFailSetState(pf)
    \/ \E pf \in forwards : SupFailNotify(pf)
    \/ \E pf \in forwards : SupFailBackoff(pf, MaxRetry)
    \/ \E pf \in forwards : SupBackoffElapsed(pf)
    \/ \E pf \in forwards : EngineReady(pf)
    \/ \E pf \in forwards : EngineBindFail(pf)
    \/ Receive

FairEvict ==
    /\ WF_vars(\E pid \in Pids : PeerExit(pid))
    /\ WF_vars(Start)
    /\ WF_vars(Receive)
    /\ \A pf \in AllForwards : WF_vars(SupLoop(pf))
    /\ \A pf \in AllForwards : WF_vars(SupFindPodFound(pf))
    /\ \A pf \in AllForwards : WF_vars(SupOpenStarted(pf))
    /\ \A pf \in AllForwards : WF_vars(SupReady(pf))
    /\ \A pf \in AllForwards : WF_vars(SupErrChan(pf))
    /\ \A pf \in AllForwards : WF_vars(SupActSetState(pf))
    /\ \A pf \in AllForwards : WF_vars(SupActSetError(pf))
    /\ \A pf \in AllForwards : WF_vars(SupActReset(pf))
    /\ \A pf \in AllForwards : WF_vars(SupActNotify(pf))
    /\ \A pf \in AllForwards : WF_vars(SupFailSetError(pf))
    /\ \A pf \in AllForwards : WF_vars(SupFailSetState(pf))
    /\ \A pf \in AllForwards : WF_vars(SupFailNotify(pf))
    /\ \A pf \in AllForwards : WF_vars(SupFailBackoff(pf, MaxRetry))
    /\ \A pf \in AllForwards : WF_vars(SupBackoffElapsed(pf))
    /\ \A pf \in AllForwards : WF_vars(EngineReady(pf))
    /\ \A pf \in AllForwards : WF_vars(EngineBindFail(pf))

SpecEvict == InitMain /\ [][NextEvict]_vars /\ FairEvict

(* SpecPair: main from LoadConfig on a file of two forwards, their two      *)
(* supervisors and forwarders, and Stop                                      *)
InitPair ==
    /\ file \in PairFiles
    /\ loaded = NotLoaded
    /\ config = ConfigOf(LoadConfig(BaseFile(Unset, 1)))
    /\ InitRecords(1, {0}, "load_config")
    /\ resolve = NoResolve
    /\ backupAll = NoBackupAll

NextPair ==
    \/ LoadConfigStep
    \/ \E port \in AllForwards : CheckPort(port)
    \/ Initialize
    \/ Start
    \/ \E pf \in forwards : SupLoop(pf)
    \/ \E pf \in forwards : SupStopSetState(pf)
    \/ \E pf \in forwards : SupStopNotify(pf)
    \/ \E pf \in forwards : SupFindPodFound(pf)
    \/ \E pf \in forwards : SupOpenStarted(pf)
    \/ \E pf \in forwards : SupReady(pf)
    \/ \E pf \in forwards : SupErrChan(pf)
    \/ \E pf \in forwards : SupReadyTimeout(pf)
    \/ \E pf \in forwards : SupActSetState(pf)
    \/ \E pf \in forwards : SupActSetError(pf)
    \/ \E pf \in forwards : SupActReset(pf)
    \/ \E pf \in forwards : SupActNotify(pf)
    \/ \E pf \in forwards : SupActiveErr(pf)
    \/ \E pf \in forwards : SupActiveCtxDone(pf)
    \/ \E pf \in forwards : SupFailSetError(pf)
    \/ \E pf \in forwards : SupFailSetState(pf)
    \/ \E pf \in forwards : SupFailNotify(pf)
    \/ \E pf \in forwards : SupFailBackoff(pf, MaxRetryPair)
    \/ \E pf \in forwards : SupBackoffElapsed(pf)
    \/ \E pf \in forwards : SupBackoffCtxDone(pf)
    \/ \E pf \in forwards : EngineReady(pf)
    \/ \E pf \in forwards : EngineFail(pf)
    \/ \E pf \in forwards : EngineEnd(pf)
    \/ \E pf \in forwards : StopCancel(pf)
    \/ Receive

SpecPair == InitPair /\ [][NextPair]_vars

(* SpecIndep: the started forwards, their supervisors, forwarders and probes; *)
(* a forwarder fails before it is ready or not at all                         *)

\* a step of the supervisor of a record whose forwarder, once ready, does not end
SupervisorStep(pf) ==
    \/ SupLoop(pf)
    \/ SupStopSetState(pf)
    \/ SupStopNotify(pf)
    \/ SupFindPodFound(pf)
    \/ SupOpenStarted(pf)
    \/ SupReady(pf)
    \/ SupErrChan(pf)
    \/ SupActSetState(pf)
    \/ SupActSetError(pf)
    \/ SupActReset(pf)
    \/ SupActNotify(pf)
    \/ SupActiveCtxDone(pf)
    \/ SupFailSetError(pf)
    \/ SupFailSetState(pf)
    \/ SupFailNotify(pf)
    \/ SupFailBackoff(pf, MaxRetryPair)
    \/ SupBackoffElapsed(pf)
    \/ SupBackoffCtxDone(pf)

\* a step of a probe of a record
ProbeStep(pf) ==
    \/ CheckHealthSnapshot(pf)
    \/ CheckHealthDialOk(pf)
    \/ CheckHealthDialFail(pf)
    \/ CheckHealthCancel(pf)
    \/ CheckHealthSetCtx(pf)
    \/ CheckHealthSetCancel(pf)

InitIndep == InitWith(DefaultDelay, MaxForwards, {0})

NextIndep ==
    \/ Start
    \/ \E pf \in forwards : SupervisorStep(pf)
    \/ \E pf \in forwards : ProbeStep(pf)
    \/ \E pf \in forwards : EngineReady(pf)
    \/ \E pf \in forwards : EngineFail(pf)
    \/ HealthTick
    \/ Receive

SpecIndep == InitIndep /\ [][NextIndep]_vars

----------------------------------------------------------------------------
(* WaitForPortForward(pf, timeout): time is counted in the seconds the call *)
(* has slept; seen is history, the states GetState has returned to it        *)

\* the longest timeout, in seconds
MaxWait == 2

\* deadline := time.Now().Add(timeout)
WaitCall(pf, timeout) ==
    /\ Started
    /\ wait.pc = "idle"
    /\ wait' = [wait EXCEPT !.pc = "loop", !.pf = pf, !.now = 0, !.deadline = timeout]
    /\ UNCHANGED <<cfgVars, fileVars, portVars, backupVars, resolve, recordVars, handleVars, pc, selCtx, err, delay, engine,
                   probeVars, stopPc, busVars, calcVars, runVars, kicked>>

\* for time.Now().Before(deadline) { ... }; after the loop the timeout error is returned
WaitLoop ==
    /\ wait.pc = "loop"
    /\ wait' = IF wait.now < wait.deadline
               THEN [wait EXCEPT !.pc = "GetState"]
               ELSE [wait EXCEPT !.pc = "returned", !.result = WaitTimeout]
    /\ UNCHANGED <<cfgVars, fileVars, portVars, backupVars, resolve, recordVars, handleVars, pc, selCtx, err, delay, engine,
                   probeVars, stopPc, busVars, calcVars, runVars, kicked>>

\* variant of WaitGetState that returns nil for every state but Starting
WaitGetStateLeftStarting ==
    /\ wait.pc = "GetState"
    /\ ~Locked(wait.pf)
    /\ LET state == State[wait.pf]
       IN  wait' = IF state # StateStarting
                   THEN [wait EXCEPT !.state = state, !.seen = @ \cup {state},
                                     !.pc = "returned", !.result = WaitNil]
                   ELSE [wait EXCEPT !.state = state, !.seen = @ \cup {state},
                                     !.pc = "sleep"]
    /\ UNCHANGED <<cfgVars, fileVars, portVars, backupVars, resolve, recordVars, handleVars, pc, selCtx, err, delay, engine,
                   probeVars, stopPc, busVars, calcVars, runVars, kicked>>

\* state := pf.GetState(), under the record's read lock; return nil on Active; on
\* Stopped or Failed go on to read the error text; else sleep
WaitGetState ==
    /\ wait.pc = "GetState"
    /\ ~Locked(wait.pf)
    /\ LET state == State[wait.pf]
       IN  wait' = IF state = StateActive
                   THEN [wait EXCEPT !.state = state, !.seen = @ \cup {state},
                                     !.pc = "returned", !.result = WaitNil]
                   ELSE IF state = StateStopped \/ state = StateFailed
                   THEN [wait EXCEPT !.state = state, !.seen = @ \cup {state},
                                     !.pc = "GetError"]
                   ELSE [wait EXCEPT !.state = state, !.seen = @ \cup {state},
                                     !.pc = "sleep"]
    /\ UNCHANGED <<cfgVars, fileVars, portVars, backupVars, resolve, recordVars, handleVars, pc, selCtx, err, delay, engine,
                   probeVars, stopPc, busVars, calcVars, runVars, kicked>>

\* return fmt.Errorf("port forward in invalid state: %s, error: %s", state, pf.GetError()),
\* pf.GetError() under the record's read lock
WaitGetError ==
    /\ wait.pc = "GetError"
    /\ ~Locked(wait.pf)
    /\ wait' = [wait EXCEPT !.pc = "returned",
                            !.result = WaitInvalid(wait.state, Error[wait.pf])]
    /\ UNCHANGED <<cfgVars, fileVars, portVars, backupVars, resolve, recordVars, handleVars, pc, selCtx, err, delay, engine,
                   probeVars, stopPc, busVars, calcVars, runVars, kicked>>

\* time.Sleep(1 * time.Second)
WaitSleep ==
    /\ wait.pc = "sleep"
    /\ wait' = [wait EXCEPT !.pc = "loop", !.now = @ + 1]
    /\ UNCHANGED <<cfgVars, fileVars, portVars, backupVars, resolve, recordVars, handleVars, pc, selCtx, err, delay, engine,
                   probeVars, stopPc, busVars, calcVars, runVars, kicked>>

(* SpecWait: one record with its supervisor, its forwarder, Stop and the     *)
(* consumer, and one call of WaitForPortForward on the record                *)
InitWait == InitWith(DefaultDelay, 1, {0})

NextWait ==
    \/ Start
    \/ \E pf \in forwards : SupLoop(pf)
    \/ \E pf \in forwards : SupStopSetState(pf)
    \/ \E pf \in forwards : SupStopNotify(pf)
    \/ \E pf \in forwards : SupFindPod(pf)
    \/ \E pf \in forwards : SupOpenStarted(pf)
    \/ \E pf \in forwards : SupReady(pf)
    \/ \E pf \in forwards : SupActSetState(pf)
    \/ \E pf \in forwards : SupActSetError(pf)
    \/ \E pf \in forwards : SupActReset(pf)
    \/ \E pf \in forwards : SupActNotify(pf)
    \/ \E pf \in forwards : SupActiveErr(pf)
    \/ \E pf \in forwards : SupActiveCtxDone(pf)
    \/ \E pf \in forwards : SupFailSetError(pf)
    \/ \E pf \in forwards : SupFailSetState(pf)
    \/ \E pf \in forwards : SupFailNotify(pf)
    \/ \E pf \in forwards : SupFailBackoff(pf, MaxRetryPair)
    \/ \E pf \in forwards : SupBackoffElapsed(pf)
    \/ \E pf \in forwards : SupBackoffCtxDone(pf)
    \/ \E pf \in forwards : EngineReady(pf)
    \/ \E pf \in forwards : EngineEnd(pf)
    \/ \E pf \in forwards : StopCancel(pf)
    \/ Receive
    \/ \E pf \in forwards, timeout \in 0..MaxWait : WaitCall(pf, timeout)
    \/ WaitLoop
    \/ WaitGetState
    \/ WaitGetError
    \/ WaitSleep

SpecWait == InitWait /\ [][NextWait]_vars

----------------------------------------------------------------------------
(* findPod and the head of establishPortForward *)

\* the most pods in the namespace, and the most attempts of a supervisor
MaxPods == 2
MaxAttempts == 2

\* the pods a namespace can hold: no two pods of a namespace share a name
Clusters ==
    {[pods |-> p, svc |-> v] :
        p \in {q \in UNION {[1..n -> [name : {"a", "b"}, phase : {PodRunning, "Pending"},
                                      selected : BOOLEAN]] : n \in 0..MaxPods} :
                  \A i, j \in DOMAIN q : q[i].name = q[j].name => i = j},
        v \in BOOLEAN}

\* variant of findPod that returns the first selected pod whatever its phase
findPodAnyPhase(Type, Service, cluster) ==
    LET named == SelectSeq(cluster.pods, LAMBDA pod : pod.name = Service)
        items == SelectSeq(cluster.pods, LAMBDA pod : pod.selected)
    IN  IF Type = "pod"
        THEN IF named = <<>> THEN [podName |-> "", err |-> "not found"]
             ELSE [podName |-> named[1].name, err |-> "nil"]
        ELSE IF ~cluster.svc THEN [podName |-> "", err |-> "not found"]
             ELSE IF items = <<>> THEN [podName |-> "", err |-> "no running pods found"]
             ELSE [podName |-> items[1].name, err |-> "nil"]

\* findPod: for Type "pod" Get the pod named Service and test its phase; else Get
\* the service, List the pods its selector matches and range over them
findPod(Type, Service, cluster) ==
    LET named == SelectSeq(cluster.pods, LAMBDA pod : pod.name = Service)
        items == SelectSeq(cluster.pods, LAMBDA pod : pod.selected)
        RECURSIVE range(_)
        range(i) == IF i > Len(items)
                    THEN [podName |-> "", err |-> "no running pods found"]
                    ELSE IF items[i].phase = PodRunning
                    THEN [podName |-> items[i].name, err |-> "nil"]
                    ELSE range(i + 1)
    IN  IF Type = "pod"
        THEN IF named = <<>> THEN [podName |-> "", err |-> "not found"]
             ELSE IF named[1].phase # PodRunning
             THEN [podName |-> "", err |-> "pod is not running"]
             ELSE [podName |-> named[1].name, err |-> "nil"]
        ELSE IF ~cluster.svc THEN [podName |-> "", err |-> "not found"]
             ELSE range(1)

\* the cluster: pods come, go and change phase, the service comes and goes
PodsChange ==
    /\ \E c \in Clusters : resolve' = [resolve EXCEPT !.cluster = c]
    /\ UNCHANGED <<cfgVars, fileVars, portVars, backupVars, wait, recordVars, handleVars, pc, selCtx, err, delay, engine,
                   probeVars, stopPc, busVars, calcVars, runVars, kicked>>

\* podName, err := m.findPod(pf); if err != nil { return the error }
EstablishFindPod ==
    /\ resolve.pc = "findPod"
    /\ LET r == findPod(resolve.Type, resolve.Service, resolve.cluster)
       IN  resolve' = [resolve EXCEPT !.podName = r.podName, !.err = r.err,
                                      !.resolvedIn = resolve.attempt,
                                      !.pc = IF r.err = "nil" THEN "open" ELSE "returned"]
    /\ UNCHANGED <<cfgVars, fileVars, portVars, backupVars, wait, recordVars, handleVars, pc, selCtx, err, delay, engine,
                   probeVars, stopPc, busVars, calcVars, runVars, kicked>>

\* path := ".../pods/" + podName + "/portforward"; the engine is opened on that path
EstablishOpen ==
    /\ resolve.pc = "open"
    /\ resolve' = [resolve EXCEPT !.target = resolve.podName, !.pc = "returned"]
    /\ UNCHANGED <<cfgVars, fileVars, portVars, backupVars, wait, recordVars, handleVars, pc, selCtx, err, delay, engine,
                   probeVars, stopPc, busVars, calcVars, runVars, kicked>>

\* establishPortForward has returned; runPortForward's loop calls it again, and
\* podName and err are new locals of the new call
EstablishAgain ==
    /\ resolve.pc = "returned"
    /\ resolve.attempt < MaxAttempts
    /\ resolve' = [resolve EXCEPT !.pc = "findPod", !.attempt = @ + 1,
                                  !.podName = "", !.err = "nil"]
    /\ UNCHANGED <<cfgVars, fileVars, portVars, backupVars, wait, recordVars, handleVars, pc, selCtx, err, delay, engine,
                   probeVars, stopPc, busVars, calcVars, runVars, kicked>>

(* SpecResolve: the attempts of one supervisor on a namespace whose pods change *)
InitResolve ==
    /\ file \in {BaseFile(d, 1) : d \in DefaultDelay}
    /\ loaded = LoadConfig(file)
    /\ config = ConfigOf(loaded)
    /\ InitRecords(1, {0}, "start")
    /\ resolve \in {[NoResolve EXCEPT !.Type = t, !.cluster = c] :
                       t \in {"service", "pod"}, c \in Clusters}
    /\ backupAll = NoBackupAll

NextResolve ==
    \/ PodsChange
    \/ EstablishFindPod
    \/ EstablishOpen
    \/ EstablishAgain

SpecResolve == InitResolve /\ [][NextResolve]_vars

----------------------------------------------------------------------------
(* BackupAllDatabases(manager): the loops over the clusters and their forwards, *)
(* in the order of the file; the 60 seconds of its WaitForPortForward are      *)
(* MaxWait polls                                                                *)

\* for _, forward := range cluster.Forwards { if forward.DBBackup == nil { continue } ...;
\* the search of manager.GetForwards() finds record i, which Initialize made from
\* forward i of this configuration; after the loops: the error if len(errors) > 0,
\* else nil
BackupRange ==
    /\ backupAll.pc = "range"
    /\ backupAll' =
          IF backupAll.i \notin forwards
          THEN [backupAll EXCEPT !.pc = "returned",
                                 !.result = IF backupAll.errors > 0
                                            THEN "backup completed with errors" ELSE "nil"]
          ELSE IF backupAll.i \notin backupAll.DBBackup
          THEN [backupAll EXCEPT !.i = @ + 1]
          ELSE [backupAll EXCEPT !.pc = "pending"]
    /\ UNCHANGED <<cfgVars, fileVars, portVars, BackupState, BackupError, wait, resolve, recordVars, handleVars, pc, selCtx, err, delay,
                   engine, probeVars, stopPc, busVars, calcVars, runVars, kicked>>

\* pf.setBackupState(BackupPending)
BackupSetPending ==
    /\ backupAll.pc = "pending"
    /\ ~Locked(backupAll.i)
    /\ BackupState' = [BackupState EXCEPT ![backupAll.i] = BackupPending]
    /\ backupAll' = [backupAll EXCEPT !.pc = "wait"]
    /\ UNCHANGED <<cfgVars, fileVars, portVars, BackupError, wait, resolve, recordVars, handleVars, pc, selCtx, err, delay,
                   engine, probeVars, stopPc, busVars, calcVars, runVars, kicked>>

\* WaitForPortForward(pf, 60*time.Second) is called
BackupWaitCall ==
    /\ backupAll.pc = "wait"
    /\ WaitCall(backupAll.i, MaxWait)

\* variant of BackupWaitErr that gives up the remaining forwards
BackupWaitErrReturns ==
    /\ backupAll.pc = "wait"
    /\ wait.pc = "returned" /\ wait.result # WaitNil
    /\ ~Locked(backupAll.i)
    /\ BackupState' = [BackupState EXCEPT ![backupAll.i] = BackupFailed]
    /\ BackupError' = [BackupError EXCEPT
                         ![backupAll.i] = IF wait.result = WaitTimeout
                                          THEN ErrWaitTimeout ELSE ErrInvalidState]
    /\ backupAll' = [backupAll EXCEPT !.errors = @ + 1, !.pc = "returned",
                                      !.result = "backup completed with errors"]
    /\ wait' = NoWait
    /\ UNCHANGED <<cfgVars, fileVars, portVars, resolve, recordVars, handleVars, pc, selCtx, err, delay,
                   engine, probeVars, stopPc, busVars, calcVars, runVars, kicked>>

\* WaitForPortForward returned an error: pf.setBackupState(BackupFailed);
\* pf.setBackupError(err.Error()); errors = append(errors, err); continue
BackupWaitErr ==
    /\ backupAll.pc = "wait"
    /\ wait.pc = "returned" /\ wait.result # WaitNil
    /\ ~Locked(backupAll.i)
    /\ BackupState' = [BackupState EXCEPT ![backupAll.i] = BackupFailed]
    /\ BackupError' = [BackupError EXCEPT
                         ![backupAll.i] = IF wait.result = WaitTimeout
                                          THEN ErrWaitTimeout ELSE ErrInvalidState]
    /\ backupAll' = [backupAll EXCEPT !.errors = @ + 1, !.i = @ + 1, !.pc = "range"]
    /\ wait' = NoWait
    /\ UNCHANGED <<cfgVars, fileVars, portVars, resolve, recordVars, handleVars, pc, selCtx, err, delay,
                   engine, probeVars, stopPc, busVars, calcVars, runVars, kicked>>

\* WaitForPortForward returned nil: pf.setBackupState(BackupRunning)
BackupSetRunning ==
    /\ backupAll.pc = "wait"
    /\ wait.pc = "returned" /\ wait.result = WaitNil
    /\ ~Locked(backupAll.i)
    /\ BackupState' = [BackupState EXCEPT ![backupAll.i] = BackupRunning]
    /\ backupAll' = [backupAll EXCEPT !.pc = "running"]
    /\ wait' = NoWait
    /\ UNCHANGED <<cfgVars, fileVars, portVars, BackupError, resolve, recordVars, handleVars, pc, selCtx, err, delay,
                   engine, probeVars, stopPc, busVars, calcVars, runVars, kicked>>

\* GetDatabaseCredentials or BackupDatabase returned an error:
\* pf.setBackupState(BackupFailed); pf.setBackupError(err.Error()); continue
BackupRunErr ==
    /\ backupAll.pc = "running"
    /\ ~Locked(backupAll.i)
    /\ BackupState' = [BackupState EXCEPT ![backupAll.i] = BackupFailed]
    /\ BackupError' = [BackupError EXCEPT ![backupAll.i] = ErrBackup]
    /\ backupAll' = [backupAll EXCEPT !.errors = @ + 1, !.i = @ + 1, !.pc = "range"]
    /\ UNCHANGED <<cfgVars, fileVars, portVars, wait, resolve, recordVars, handleVars, pc, selCtx, err, delay,
                   engine, probeVars, stopPc, busVars, calcVars, runVars, kicked>>

\* both succeeded: pf.setBackupCompleted(sizeMB); backupCount++
BackupSetCompleted ==
    /\ backupAll.pc = "running"
    /\ ~Locked(backupAll.i)
    /\ BackupState' = [BackupState EXCEPT ![backupAll.i] = BackupCompleted]
    /\ BackupError' = [BackupError EXCEPT ![backupAll.i] = ""]
    /\ backupAll' = [backupAll EXCEPT !.backupCount = @ + 1, !.i = @ + 1, !.pc = "range"]
    /\ UNCHANGED <<cfgVars, fileVars, portVars, wait, resolve, recordVars, handleVars, pc, selCtx, err, delay,
                   engine, probeVars, stopPc, busVars, calcVars, runVars, kicked>>

(* SpecBackup: BackupAllDatabases on the records of MaxForwards forwards, each *)
(* with a supervisor whose engine does not fail, and Stop                     *)
InitBackup ==
    /\ file \in {BaseFile(d, MaxForwards) : d \in DefaultDelay}
    /\ loaded = LoadConfig(file)
    /\ config = ConfigOf(loaded)
    /\ InitRecords(MaxForwards, {0}, "start")
    /\ resolve = NoResolve
    /\ backupAll \in {[NoBackupAll EXCEPT !.pc = "range", !.DBBackup = b] :
                         b \in {1..MaxForwards, 2..MaxForwards}}

NextBackup ==
    \/ Start
    \/ \E pf \in forwards : SupLoop(pf)
    \/ \E pf \in forwards : SupStopSetState(pf)
    \/ \E pf \in forwards : SupStopNotify(pf)
    \/ \E pf \in forwards : SupFindPodFound(pf)
    \/ \E pf \in forwards : SupOpenStarted(pf)
    \/ \E pf \in forwards : SupReady(pf)
    \/ \E pf \in forwards : SupActSetState(pf)
    \/ \E pf \in forwards : SupActSetError(pf)
    \/ \E pf \in forwards : SupActReset(pf)
    \/ \E pf \in forwards : SupActNotify(pf)
    \/ \E pf \in forwards : SupActiveCtxDone(pf)
    \/ \E pf \in forwards : EngineReady(pf)
    \/ \E pf \in forwards : StopCancel(pf)
    \/ Receive
    \/ BackupRange
    \/ BackupSetPending
    \/ BackupWaitCall
    \/ WaitLoop
    \/ WaitGetState
    \/ WaitGetError
    \/ WaitSleep
    \/ BackupWaitErr
    \/ BackupSetRunning
    \/ BackupRunErr
    \/ BackupSetCompleted

SpecBackup == InitBackup /\ [][NextBackup]_vars

----------------
(* Claims *)

\* C1: after Stop() has been called, every supervisor sets its record to Stopped
\* before it leaves its loop: a supervisor that has exited after shutdown was
\* requested has left its record Stopped.
C1_ShutdownReachesStopped ==
    \A pf \in forwards :
        (StopCalled /\ pc[pf] = "exited") => State[pf] = StateStopped

\* C2: retries are unbounded: as long as Stop() has not been called, no supervisor
\* has left its loop.
C2_NeverLeavesLoop ==
    \A pf \in forwards : pc[pf] = "exited" => StopCalled

\* C3: probe-as-kick: after a failed probe has cancelled the handle of an Active
\* record, the supervisor sets the record to Reconnecting before it starts its
\* next establishPortForward attempt.
C3_ProbeKick ==
    \A pf \in forwards :
        (kicked[pf] /\ ~StopCalled) => pc[pf] # "findPod"

\* C4: a record's State is Stopped only if Stop() was called.
C4_StoppedOnlyOnShutdown ==
    \A pf \in forwards : State[pf] = StateStopped => StopCalled

\* C5: in a run of consecutive failures with no Active in between, the wait
\* before the next attempt is reconnectDelay after the 1st failure and
\* min(2^(k-1) s, 60 s) after the k-th, k >= 2.
C5_BackoffLaw ==
    \A pf \in forwards :
        (pc[pf] = "backoff_wait" /\ failRun[pf] >= 1) =>
            delay[pf] = IF failRun[pf] = 1 THEN config.ReconnectDelay
                        ELSE IF failRun[pf] - 1 >= 6 THEN Seconds(60)
                        ELSE Seconds(Pow2(failRun[pf] - 1))

\* C6: calculateBackoff(retryCount) is exactly 60 s for every retryCount >= 6
\* and is never zero or negative.
C6_BackoffCeiling ==
    backoffRes.done =>
        /\ retryArg >= 6 => backoffRes.val = Seconds(60)
        /\ ~W64Neg(backoffRes.val)
        /\ backoffRes.val # W64Zero

\* C7: every entry into Active sets RetryCount to 0, and the wait after the
\* first failure that follows is reconnectDelay, however many failures came
\* before that Active period.
C7_ResetLaw ==
    \A pf \in forwards :
        /\ pc[pf] \in {"act_notify", "active_wait"} => RetryCount[pf] = 0
        /\ (pc[pf] = "backoff_wait" /\ failRun[pf] = 1) =>
               (delay[pf] = config.ReconnectDelay /\ RetryCount[pf] = 1)

\* a first failure after an Active period that two or more failures preceded
C7_Witness ==
    \E pf \in forwards :
        pc[pf] = "backoff_wait" /\ failRun[pf] = 1 /\ longRun[pf]

C9_StoppedTerminal ==
    [][\A pf \in forwards :
          State[pf] = StateStopped =>
              /\ State'[pf] = StateStopped
              /\ engine'[pf] = "starting" => engine[pf] = "starting"]_vars

\* a Stopped record whose supervisor has returned and that the backup
\* collaborator has seen Stopped
C9_Witness ==
    \E pf \in forwards :
        /\ State[pf] = StateStopped
        /\ pc[pf] = "exited"
        /\ BackupState[pf] = BackupFailed
        /\ BackupError[pf] = ErrInvalidState

\* the updates of a record that are queued are in the order of their
\* publication and were published after the last one received
QueuedInOrder ==
    \A i \in 1..Len(updateChan) :
        /\ updateChan[i][2] > lastRecv[updateChan[i][1]]
        /\ \A j \in (i + 1)..Len(updateChan) :
               updateChan[j][1] = updateChan[i][1] => updateChan[i][2] < updateChan[j][2]

\* C10 as stated: of two publications p1 before p2 of a record, both are on
\* the channel in that order or p1 is dropped; so when p2 is dropped, p1 is.
C10_BothOrFirstDropped ==
    /\ QueuedInOrder
    /\ \A pf \in forwards : \A n2 \in droppedPubs[pf] :
           \A n1 \in 1..(n2 - 1) : n1 \in droppedPubs[pf]

\* C10, amended: of two publications p1 before p2 of a record, both are on
\* the channel in that order or at least one of them is dropped; the channel
\* never holds the two out of order.
C10_Order ==
    /\ QueuedInOrder
    /\ \A pf \in forwards : \A n \in droppedPubs[pf] :
           \A i \in 1..Len(updateChan) : updateChan[i] # <<pf, n>>

\* a publication was dropped, others are queued and the consumer has received
C10_Witness ==
    \E pf \in forwards :
        /\ droppedPubs[pf] # {}
        /\ Len(updateChan) >= 1
        /\ lastRecv[pf] > 0

\* C11: notifyUpdate never waits, with or without a consumer receiving; the
\* channel never holds more than 100 updates; an update offered while 100
\* are queued is dropped and leaves the queue as it was.
C11_NeverBlocksBounded ==
    /\ [](\A pf \in forwards :
              (Started /\ pubCount[pf] < MaxPub) => ENABLED NotifyUpdateCall(pf))
    /\ [](Len(updateChan) <= UpdateChanCap)
    /\ [][\A pf \in forwards :
              (pubCount'[pf] # pubCount[pf] /\ Len(updateChan) = UpdateChanCap) =>
                  (updateChan' = updateChan /\ pubCount'[pf] \in droppedPubs'[pf])]_vars

\* 100 updates are queued, one more was offered and dropped, and no consumer
\* has received anything
C11_Witness ==
    \E pf \in forwards :
        /\ Len(updateChan) = UpdateChanCap
        /\ droppedPubs[pf] # {}
        /\ lastRecv[pf] = 0

\* C12: a failure of pod resolution, of engine construction, of the engine
\* before or after ready, or a ready timeout is handled by the supervisor: it
\* stores the failure's message in Error and sets State to Reconnecting; the
\* result of a forwarder that has ended is never taken without that.
C12_ErrorsAbsorbed ==
    [][\A pf \in forwards :
          /\ pc'[pf] \in {"fail_notify", "fail_backoff"} =>
                 /\ State'[pf] = StateReconnecting
                 /\ Error'[pf] = err'[pf]
                 /\ err'[pf] \in FailureTexts
          /\ pc'[pf] = "backoff_wait" =>
                 (State'[pf] = StateReconnecting /\ Error'[pf] \in FailureTexts)
          /\ ( /\ pc[pf] \in {"wait_ready", "active_wait"}
               /\ engine[pf] \in {"failed", "ended_err", "ended_nil"}
               /\ engine'[pf] = "none"
               /\ ~(pc[pf] = "active_wait" /\ selCtx[pf] \in cancelled[pf]) ) =>
                 pc'[pf] = "fail_setError"]_vars

\* the port whose check the step made, if any
JustChecked(port) == port \in checked' /\ port \notin checked

\* C13 as stated: for a configured port, no PID found: nothing is done; the
\* listener is another process whose name contains the program's name: one
\* SIGTERM is sent to it and the check succeeds; any other, foreign process:
\* no signal, and an error naming the port, the PID and the process name.
C13_ResolverDecision ==
    [][\A port \in AllForwards : JustChecked(port) =>
          LET f == found'[port] IN
          /\ f.pid = 0 => (portErr'[port] = NoPortErr /\ sigterms' = sigterms)
          /\ (f.pid \notin {0, SelfPid} /\ Contains(f.name, ProgramName)) =>
                 /\ sigterms' = [sigterms EXCEPT ![f.pid] = @ + 1]
                 /\ portErr'[port] = NoPortErr
          /\ (f.pid \notin {0, SelfPid} /\ ~Contains(f.name, ProgramName)) =>
                 /\ sigterms' = sigterms
                 /\ portErr'[port] = ErrForeignProcess(port, f.name, f.pid)]_vars

\* C13, amended: as C13, but for another process whose name contains the
\* program's name one SIGTERM is attempted: the check succeeds with one
\* SIGTERM delivered, or fails with an error naming the PID and none delivered.
C13_ResolverDecisionKill ==
    [][\A port \in AllForwards : JustChecked(port) =>
          LET f == found'[port] IN
          /\ f.pid = 0 => (portErr'[port] = NoPortErr /\ sigterms' = sigterms)
          /\ (f.pid \notin {0, SelfPid} /\ Contains(f.name, ProgramName)) =>
                 \/ /\ sigterms' = [sigterms EXCEPT ![f.pid] = @ + 1]
                    /\ portErr'[port] = NoPortErr
                 \/ /\ sigterms' = sigterms
                    /\ portErr'[port] = ErrKillFailed(f.pid)
          /\ (f.pid \notin {0, SelfPid} /\ ~Contains(f.name, ProgramName)) =>
                 /\ sigterms' = sigterms
                 /\ portErr'[port] = ErrForeignProcess(port, f.name, f.pid)]_vars

\* one port's listener was a peer and got its SIGTERM, another port's was a
\* foreign process and the check failed on it
C13_Witness ==
    \E p, q \in checked :
        /\ found[p].pid \notin {0, SelfPid}
        /\ Contains(found[p].name, ProgramName)
        /\ sigterms[found[p].pid] = 1
        /\ portErr[p] = NoPortErr
        /\ found[q].pid \notin {0, SelfPid}
        /\ portErr[q] = ErrForeignProcess(q, found[q].name, found[q].pid)
        /\ mainPc = "exit1"

\* C14: when the process found on a port is this program's own PID the
\* resolver sends no signal and returns no error, whatever name was read.
C14_OwnPidIgnored ==
    [][\A port \in AllForwards :
          (JustChecked(port) /\ found'[port].pid = SelfPid) =>
              (sigterms' = sigterms /\ portErr'[port] = NoPortErr)]_vars

C16_EvictionThenActive ==
    /\ [][\A port \in AllForwards :
              (JustChecked(port) /\ sigterms' # sigterms) =>
                  (listener' = listener /\ mainPc' = "initialize")]_vars
    /\ \A pf \in AllForwards :
           (engine[pf] = "failed" /\ listener[pf] # NoListener)
               ~> (State[pf] = StateReconnecting)
    /\ \A pf \in AllForwards :
           (mainPc = "running" /\ pf \in forwards /\ \E pid \in Pids : sigterms[pid] > 0)
               ~> (State[pf] = StateActive)

\* a record that is Active after a failed attempt, its port's former listener
\* signalled and gone
C16_Witness ==
    \E pf \in forwards :
        /\ State[pf] = StateActive
        /\ ReconnectAt[pf].set
        /\ listener[pf] = NoListener
        /\ \E pid \in Pids : sigterms[pid] = 1

----------------------------------------------------------------------------
\* the forwarder of a record is live and its stop channel is open
Live(pf) == engine[pf] \in {"starting", "ready"}

\* C17: no two supervisors have at the same time a forwarder that is bound to,
\* or binding, the same local port; and a supervisor opens a new forwarder
\* only when its previous one has ended or has had its stop channel closed:
\* a live forwarder with an open stop channel exists only while its
\* supervisor waits in establishPortForward
C17_PortExclusive ==
    [][/\ \A pf \in forwards' : \A pg \in forwards' \ {pf} :
              (Live(pf) /\ Live(pg))' => LocalPort(pf)' # LocalPort(pg)'
       /\ \A pf \in forwards :
              /\ (pc[pf] = "open" /\ pc'[pf] = "wait_ready") => engine[pf] = "none"
              /\ Live(pf) => pc[pf] \in {"wait_ready", "act_setState", "act_setError",
                                         "act_reset", "act_notify", "active_wait"}]_vars

\* both supervisors of a file of two clusters have a live forwarder, the
\* first one its second after a failure
C17_Witness ==
    /\ Len(file.clusters) = 2
    /\ Live(1) /\ Live(2)
    /\ RetryCount[1] > 0 /\ engine[1] = "starting"

\* the supervisor of a record is about to call notifyUpdate
AtNotify(pf) == pc[pf] \in {"act_notify", "fail_notify", "stop_notify"}

Places(clusters) ==
    UNION {{<<i, j>> : j \in 1..Len(clusters[i].Forwards)} : i \in 1..Len(clusters)}

\* C19: LoadConfig accepts a file only if its cluster names are non-empty and
\* unique, every cluster has a forward, no two forwards of a cluster have the
\* same namespace and service, every type is service or pod, every local and
\* remote port is in 1..65535, and no local port occurs twice in the file, in
\* one cluster or in two; a file with a violation gives an error and no
\* Config; the local ports 1 and 65535 of an otherwise good file are accepted
C19_AcceptsOnlyValid ==
    LET cs == file.clusters
        fw(p) == cs[p[1]].Forwards[p[2]]
    IN  /\ loaded.err = "nil" =>
            /\ \A i \in 1..Len(cs) :
                   /\ cs[i].Name # <<>>
                   /\ \A k \in 1..Len(cs) : k # i => cs[k].Name # cs[i].Name
                   /\ Len(cs[i].Forwards) >= 1
            /\ \A p \in Places(cs) :
                   /\ fw(p).Type \in {"service", "pod"}
                   /\ fw(p).LocalPort \in 1..65535
                   /\ fw(p).RemotePort \in 1..65535
                   /\ \A q \in Places(cs) \ {p} :
                          /\ fw(q).LocalPort # fw(p).LocalPort
                          /\ q[1] = p[1] =>
                                 <<fw(q).Namespace, fw(q).Service>> #
                                     <<fw(p).Namespace, fw(p).Service>>
            /\ loaded.Clusters = cs
        /\ loaded.err \notin {"nil", "not loaded"} => DOMAIN loaded = {"err"}
        /\ (loaded # NotLoaded /\ cs \in {<<Cluster(<<"a">>, <<g>>)>> : g \in GoodForwards})
               => loaded.err = "nil"

\* a file of two clusters with the local ports 1 and 65535 was accepted
C19_Witness ==
    /\ loaded.err = "nil"
    /\ Len(file.clusters) = 2
    /\ {file.clusters[i].Forwards[1].LocalPort : i \in 1..2} = {1, 65535}

----------------------------------------------------------------------------
\* C20: after a successful LoadConfig, CheckInterval is 10 s when the file
\* leaves check_interval out and the value of the file otherwise, and
\* ReconnectDelay is 5 s when the file leaves reconnect_delay out and the
\* value of the file otherwise; ReconnectDelay is the wait calculateBackoff
\* gives for a first failure
C20_Defaults ==
    loaded.err = "nil" =>
        /\ loaded.CheckInterval =
               IF file.check_interval = Unset THEN 10 ELSE file.check_interval[1]
        /\ loaded.ReconnectDelay =
               IF file.reconnect_delay = Unset THEN 5 ELSE file.reconnect_delay[1]
        /\ calculateBackoff(0) = Seconds(loaded.ReconnectDelay)

\* C20, as the code has it: a key that the file leaves out or sets to zero
\* gets the default, 10 s for check_interval and 5 s for reconnect_delay,
\* and every other value of the file is kept; ReconnectDelay is the wait
\* calculateBackoff gives for a first failure
C20_DefaultsOrZero ==
    loaded.err = "nil" =>
        /\ loaded.CheckInterval =
               IF file.check_interval \in {Unset, Given(0)} THEN 10
               ELSE file.check_interval[1]
        /\ loaded.ReconnectDelay =
               IF file.reconnect_delay \in {Unset, Given(0)} THEN 5
               ELSE file.reconnect_delay[1]
        /\ calculateBackoff(0) = Seconds(loaded.ReconnectDelay)

\* a file with check_interval 0 and reconnect_delay 3 s was loaded: 10 s and 3 s
C20_Witness ==
    /\ loaded.err = "nil"
    /\ file.check_interval = Given(0) /\ loaded.CheckInterval = 10
    /\ file.reconnect_delay = Given(3) /\ loaded.ReconnectDelay = 3

----------------------------------------------------------------------------
\* C22: a supervisor whose backoff wait has elapsed sets State to Starting
\* before its next attempt, State never goes from Reconnecting to Active in
\* one change, and every change of State is a transition of the table
\* (Starting to Active or Reconnecting, Active to Reconnecting, Reconnecting
\* to Starting, any state but Stopped to Stopped)
C22_TransitionTable ==
    [][LET Table == {<<StateStarting, StateActive>>, <<StateStarting, StateReconnecting>>,
                     <<StateActive, StateReconnecting>>, <<StateReconnecting, StateStarting>>} \cup
                    {<<st, StateStopped>> :
                        st \in {StateStarting, StateActive, StateReconnecting, StateFailed}}
       IN  \A pf \in forwards :
               /\ State'[pf] # State[pf] => <<State[pf], State'[pf]>> \in Table
               /\ (pc[pf] = "backoff_wait" /\ pc'[pf] = "loop") => State'[pf] = StateStarting]_vars

C25_ActiveImpliesZero ==
    \A pf \in forwards :
        (~Locked(pf) /\ State[pf] = StateActive) => RetryCount[pf] = 0

\* C26: when the supervisor calls notifyUpdate for a failure, the RetryCount
\* of the record has been incremented for that failure and ReconnectAt holds
\* the time of the retry that follows it
C26_SideEffectsBeforePublish ==
    [][\A pf \in forwards :
          (pc[pf] = "fail_notify" /\ pc'[pf] # "fail_notify") =>
              /\ RetryCount[pf] = failRun[pf] + 1
              /\ ReconnectAt[pf] = [set |-> TRUE, after |-> calculateBackoff(failRun[pf])]]_vars

\* C23: when the forwarder of an Active record has ended, with an error or
\* without, and Stop has not been called, the supervisor handles it as a
\* failure, and when it starts its backoff wait the record is Reconnecting
\* with a non-empty Error, RetryCount 1 and ReconnectAt reconnectDelay after
\* the failure
C23_ActiveFailure ==
    [][\A pf \in forwards :
          /\ (pc[pf] = "active_wait" /\ engine[pf] \in {"ended_err", "ended_nil"}
                 /\ ~StopCalled /\ pc'[pf] # "active_wait")
                 => pc'[pf] = "fail_setError"
          /\ (pc[pf] = "fail_backoff" /\ pc'[pf] = "backoff_wait"
                 /\ err[pf] \in {ErrPortForward, ErrClosed} /\ ~StopCalled)
                 => /\ State'[pf] = StateReconnecting
                    /\ Error'[pf] = err[pf]
                    /\ RetryCount'[pf] = 1
                    /\ ReconnectAt'[pf] = [set |-> TRUE, after |-> config.ReconnectDelay]]_vars

\* C29: a step that changes the State, Error, RetryCount or ReconnectAt of a
\* record is a step of the supervisor of that record: it is no step of a
\* probe, of Stop, of the consumer of the updates or of the backup
\* collaborator
C29_SingleWriter ==
    [][\A pf \in forwards :
          <<State'[pf], Error'[pf], RetryCount'[pf], ReconnectAt'[pf]>> #
              <<State[pf], Error[pf], RetryCount[pf], ReconnectAt[pf]>>
          => /\ pc'[pf] # pc[pf]
             /\ \A pg \in forwards \ {pf} : pc'[pg] = pc[pg]
             /\ UNCHANGED <<probeVars, LastCheck, handleVars, stopPc, backupVars>>
             /\ Len(updateChan') >= Len(updateChan)]_vars

\* a record that its supervisor has set Reconnecting and that a probe, Stop
\* and the backup collaborator have all worked on
C29_Witness ==
    \E pf \in forwards :
        /\ State[pf] = StateReconnecting /\ RetryCount[pf] >= 1 /\ ReconnectAt[pf].set
        /\ LastCheck[pf] = 1 /\ nctx[pf] > 0
        /\ StopCalled
        /\ BackupState[pf] = BackupFailed

\* C30: the handle of a record is replaced only after its supervisor has
\* left the select that waits on the old one, and once Stop has called the
\* cancel function of a record its supervisor starts no further attempt
C30_NoLostCancel ==
    [][\A pf \in forwards :
          /\ ctx'[pf] # ctx[pf] =>
                 ~(pc[pf] \in {"active_wait", "backoff_wait"} /\ selCtx[pf] = ctx[pf])
          /\ stopPc >= pf => ~(pc[pf] = "loop" /\ pc'[pf] = "findPod")]_vars

\* C28: the handle of a record (ctx, cancel) is read only while no other
\* goroutine holds the record's lock for writing it, by the supervisor at the
\* head of its loop, by checkHealth and by Stop when they call cancel; and
\* only the supervisor of the record writes under its lock
C28_LockDiscipline ==
    [][\A pf \in forwards :
          /\ (SupLoop(pf) \/ StopCancel(pf) \/ CheckHealthCancel(pf)) => ~Locked(pf)
          /\ (ctx'[pf] # ctx[pf] \/ cancel'[pf] # cancel[pf] \/ LastCheck'[pf] # LastCheck[pf])
                 => pc'[pf] # pc[pf]]_vars

\* C27: every change of a record's State or Error made by the supervisor is
\* followed by a notifyUpdate call for that record before the supervisor
\* changes State or Error of the record again or exits
C27_NotifyAfterEveryChange ==
    [][\A pf \in forwards :
          /\ (State'[pf] # State[pf] \/ Error'[pf] # Error[pf]) => unpub[pf] = {}
          /\ pc'[pf] = "exited" => unpub'[pf] = {}]_vars

\* C27, as the code has it: a change of State or of Error is followed by a
\* notifyUpdate call for the record before the supervisor changes the same
\* field again, enters a wait or exits; the change of Error and the change of
\* State of one transition share one call
C27_NotifyAfterEveryTransition ==
    [][\A pf \in forwards :
          /\ State'[pf] # State[pf] => "State" \notin unpub[pf]
          /\ Error'[pf] # Error[pf] => "Error" \notin unpub[pf]
          /\ pc'[pf] \in {"active_wait", "backoff_wait", "exited"} => unpub'[pf] = {}]_vars

\* a failure and the entry into Active after it have each changed both fields
\* and published them with one call: nothing is unpublished while the
\* supervisor waits on the forwarder
C27_Witness ==
    \E pf \in forwards :
        /\ pc[pf] = "active_wait"
        /\ unpub[pf] = {}
        /\ State[pf] = StateActive /\ Error[pf] = ""
        /\ ReconnectAt[pf].set
        /\ Len(updateChan) >= 1

\* C21: WaitForPortForward returns nil only after its own GetState returned
\* Active; once GetState has returned Stopped or Failed it polls and sleeps
\* no more and returns the invalid-state error carrying that state and the
\* record's error text; a call that has seen only Starting and Reconnecting
\* returns the timeout error, and only at or after the deadline; no step of
\* the call changes the record
C21_WaitContract ==
    /\ [](/\ wait.result = WaitNil =>
                wait.state = StateActive /\ StateActive \in wait.seen
          /\ wait.seen \cap {StateStopped, StateFailed} # {} =>
                /\ wait.pc \in {"GetError", "returned"}
                /\ wait.state \in {StateStopped, StateFailed}
                /\ wait.pc = "returned" =>
                      wait.result = WaitInvalid(State[wait.pf], Error[wait.pf])
          /\ (wait.pc = "returned" /\ wait.seen \subseteq {StateStarting, StateReconnecting}) =>
                wait.result = WaitTimeout /\ wait.now >= wait.deadline
          /\ wait.result = WaitTimeout =>
                wait.seen \subseteq {StateStarting, StateReconnecting})
    /\ [][wait' # wait =>
             UNCHANGED <<recordVars, handleVars, backupVars, pc, engine, busVars>>]_vars

\* a call that slept through Starting or Reconnecting has returned nil on Active
C21_Witness ==
    /\ wait.result = WaitNil
    /\ wait.now >= 1
    /\ wait.seen \cap {StateStarting, StateReconnecting} # {}
    /\ State[wait.pf] = StateActive

C32_NoActiveAfterStop ==
    [][\A pf \in forwards :
          (Started /\ stopPc = Cardinality(forwards)) =>
              /\ State'[pf] = StateActive => State[pf] = StateActive
              /\ engine'[pf] = "starting" => engine[pf] = "starting"]_vars

\* C33: on the ready timeout the supervisor stops the engine (closes its stop
\* channel) and returns the timeout error; the record then gets the timeout
\* text, goes to Reconnecting, is published and enters the backoff wait with
\* RetryCount incremented and ReconnectAt set; a record enters Active only on
\* the ready signal of the engine of the current attempt, never of an engine
\* that was timed out
C33_ReadyTimeout ==
    [][\A pf \in forwards :
          /\ (pc[pf] = "wait_ready" /\ err'[pf] = ErrTimeout /\ pc'[pf] # pc[pf]) =>
                engine'[pf] = "none" /\ pc'[pf] = "fail_setError"
          /\ (err[pf] = ErrTimeout /\ pc'[pf] # pc[pf]) =>
                /\ pc[pf] = "fail_setError" =>
                      pc'[pf] = "fail_setState" /\ Error'[pf] = ErrTimeout
                /\ pc[pf] = "fail_setState" =>
                      pc'[pf] = "fail_notify" /\ State'[pf] = StateReconnecting
                /\ pc[pf] = "fail_notify" =>
                      pc'[pf] = "fail_backoff" /\ updateChan' = Append(updateChan, <<pf, 0>>)
                /\ pc[pf] = "fail_backoff" =>
                      /\ pc'[pf] = "backoff_wait"
                      /\ RetryCount'[pf] = RetryCount[pf] + 1
                      /\ ReconnectAt'[pf] = [set |-> TRUE, after |-> delay'[pf]]
                      /\ engine'[pf] = "none"
          /\ (State'[pf] = StateActive /\ State[pf] # StateActive) =>
                pc[pf] = "act_setState" /\ engine[pf] \in {"ready", "ended_err", "ended_nil"}
          /\ pc'[pf] = "act_setState" /\ pc[pf] # "act_setState" =>
                pc[pf] = "wait_ready" /\ engine[pf] \in {"ready", "ended_err", "ended_nil"}]_vars

\* a record in its backoff wait after a ready timeout
C33_Witness ==
    \E pf \in forwards :
        /\ pc[pf] = "backoff_wait"
        /\ State[pf] = StateReconnecting
        /\ Error[pf] = ErrTimeout
        /\ engine[pf] = "none"
        /\ RetryCount[pf] = 2
        /\ ReconnectAt[pf].set

\* C34: a probe of a record whose State is not Active at the snapshot changes
\* nothing on the record, LastCheck included, and opens no connection; a probe
\* of an Active record whose connect succeeds changes only LastCheck and
\* leaves State, Error, RetryCount and the handle as they are
C34_ProbeFrame ==
    [][\A pf \in forwards :
          /\ (CheckHealthSnapshot(pf) /\ State[pf] # StateActive) =>
                /\ UNCHANGED <<State[pf], Error[pf], RetryCount[pf], ReconnectAt[pf], LastCheck[pf]>>
                /\ UNCHANGED <<ctx[pf], cancel[pf], cancelled[pf]>>
                /\ hpc'[pf] = "idle"
          /\ ((CheckHealthSnapshot(pf) /\ State[pf] = StateActive) \/ CheckHealthDialOk(pf)) =>
                /\ UNCHANGED <<State[pf], Error[pf], RetryCount[pf], ReconnectAt[pf]>>
                /\ UNCHANGED <<ctx[pf], cancel[pf], cancelled[pf]>>]_vars

\* C35: findPod returns a pod name only of a pod whose phase is Running: for
\* Type "pod" the pod named by the forward, for Type "service" the first pod in
\* list order, among those the selector matches, that is Running; it returns
\* an error exactly when there is no such pod; and an engine is opened only
\* on the name resolved in the same attempt
C35_PodResolution ==
    [][LET c == resolve.cluster
           Fits(i) == /\ c.pods[i].phase = PodRunning
                      /\ IF resolve.Type = "pod"
                         THEN c.pods[i].name = resolve.Service
                         ELSE /\ c.svc /\ c.pods[i].selected
                              /\ \A j \in 1..(i - 1) :
                                    ~(c.pods[j].selected /\ c.pods[j].phase = PodRunning)
       IN  /\ (resolve.pc = "findPod" /\ resolve'.pc # "findPod") =>
                 /\ resolve'.err = "nil" =>
                       \E i \in DOMAIN c.pods : Fits(i) /\ c.pods[i].name = resolve'.podName
                 /\ resolve'.err # "nil" =>
                       resolve'.podName = "" /\ ~\E i \in DOMAIN c.pods : Fits(i)
                 /\ resolve'.pc = IF resolve'.err = "nil" THEN "open" ELSE "returned"
           /\ resolve'.target # resolve.target =>
                 /\ resolve'.target = resolve.podName
                 /\ resolve.resolvedIn = resolve.attempt
                 /\ resolve.err = "nil"]_vars

\* in a second attempt the engine was opened on a pod that is not the first
\* of the list, after the pods changed
C35_Witness ==
    /\ resolve.attempt = 2
    /\ resolve.pc = "returned"
    /\ resolve.Type = "service"
    /\ resolve.target = "b"
    /\ resolve.resolvedIn = 2
    /\ Len(resolve.cluster.pods) = 2
    /\ resolve.cluster.pods[1].name = "a"

C37_ResolverAtomic ==
    /\ (\E port \in checked : portErr[port].kind = "non-nanoporter process") =>
           \A pid \in Pids : sigterms[pid] = 0
    /\ \A pid \in Pids : sigterms[pid] <= 1

\* C38: every configuration LoadConfig accepts has a strictly positive
\* CheckInterval and a strictly positive ReconnectDelay, so that the first
\* backoff wait is positive
C38_PositiveDurations ==
    loaded.err = "nil" =>
        /\ loaded.CheckInterval > 0
        /\ loaded.ReconnectDelay > 0
        /\ W64Gt(calculateBackoff(0), W64Zero)

\* C39: in BackupAllDatabases a record's BackupState changes only for the forward
\* the loop is at, which has a db_backup section, and only None to Pending,
\* Pending to Running or Failed, Running to Completed or Failed; it becomes
\* Running only when WaitForPortForward on that record has returned nil after
\* seeing it Active; a step that marks one record leaves the others as they
\* were; when the call has returned every forward with a db_backup section is
\* Completed or Failed (a failure did not end the loop), the others are
\* untouched, backupCount and the number of errors count the Completed and the
\* Failed records, and the call returned an error exactly if a record is Failed
C39_BackupProgression ==
    /\ [](backupAll.pc = "returned" =>
            /\ \A pf \in forwards :
                  BackupState[pf] \in (IF pf \in backupAll.DBBackup
                                       THEN {BackupCompleted, BackupFailed}
                                       ELSE {BackupNone})
            /\ backupAll.backupCount =
                  Cardinality({pf \in forwards : BackupState[pf] = BackupCompleted})
            /\ backupAll.errors =
                  Cardinality({pf \in forwards : BackupState[pf] = BackupFailed})
            /\ (backupAll.result # "nil") <=>
                  (\E pf \in forwards : BackupState[pf] = BackupFailed))
    /\ [][\A pf \in forwards :
             BackupState'[pf] # BackupState[pf] =>
                /\ pf = backupAll.i /\ pf \in backupAll.DBBackup
                /\ \A q \in forwards \ {pf} :
                      BackupState'[q] = BackupState[q] /\ BackupError'[q] = BackupError[q]
                /\ <<BackupState[pf], BackupState'[pf]>> \in
                      {<<BackupNone, BackupPending>>,
                       <<BackupPending, BackupRunning>>, <<BackupPending, BackupFailed>>,
                       <<BackupRunning, BackupCompleted>>, <<BackupRunning, BackupFailed>>}
                /\ BackupState'[pf] = BackupRunning =>
                      /\ wait.pf = pf /\ wait.pc = "returned"
                      /\ wait.result = WaitNil /\ StateActive \in wait.seen
                /\ (BackupState[pf] = BackupPending /\ BackupState'[pf] = BackupFailed) =>
                      /\ wait.pf = pf /\ wait.pc = "returned"
                      /\ StateActive \notin wait.seen]_vars

\* the call returned an error: the backup of the first forward failed because its
\* tunnel was not ready, and the second forward was still backed up
C39_Witness ==
    /\ backupAll.pc = "returned"
    /\ backupAll.DBBackup = {1, 2}
    /\ BackupState[1] = BackupFailed /\ BackupError[1] = ErrWaitTimeout
    /\ BackupState[2] = BackupCompleted
    /\ backupAll.result # "nil"

=============================================================================
